---- MODULE Spec2Model ----
(***************************************************************************)
(* A model of the generic-logger package: the LoggerRepository facade      *)
(* (src/logger/core/logger-repository.ts), the process-wide sanitizer      *)
(* registry (src/logger/sanitizers/sanitizer-registry.ts) and the         *)
(* DefaultSanitizer (src/logger/sanitizers/default-sanitizer.ts).          *)
(*                                                                         *)
(* JavaScript strings are sequences of one-character strings, so that      *)
(* toLowerCase, includes, slice and the regular expressions are computed   *)
(* and not assumed.  JavaScript values are tagged tuples:                  *)
(*   <<"undef">>  <<"null">>  <<"str", chars>>  <<"num", chars>>           *)
(*   <<"arr", items>>  <<"obj", entries>>  <<"err", message, entries>>     *)
(* where entries is a sequence of <<key, value>> pairs in insertion order  *)
(* (the own enumerable properties) and a number carries its String() form. *)
(***************************************************************************)
EXTENDS Integers, Sequences, FiniteSets, TLC

(***************************************************************************)
(* Characters and strings                                                  *)
(***************************************************************************)
UpperSeq ==
    <<"A","B","C","D","E","F","G","H","I","J","K","L","M",
      "N","O","P","Q","R","S","T","U","V","W","X","Y","Z">>

LowerSeq ==
    <<"a","b","c","d","e","f","g","h","i","j","k","l","m",
      "n","o","p","q","r","s","t","u","v","w","x","y","z">>

DigitSeq == <<"0","1","2","3","4","5","6","7","8","9">>

Range(s) == { s[i] : i \in DOMAIN s }

IsDigit(c) == c \in Range(DigitSeq)

IsLetter(c) == c \in Range(UpperSeq) \cup Range(LowerSeq)

\* \w of a JavaScript regular expression
IsWordChar(c) == IsLetter(c) \/ IsDigit(c) \/ c = "_"

\* \s of a JavaScript regular expression (the white space the model uses)
IsSpace(c) == c \in {" ", "\t", "\n"}

\* one character of String.prototype.toLowerCase
LowerChar(c) ==
    IF c \in Range(UpperSeq)
    THEN LowerSeq[CHOOSE i \in DOMAIN UpperSeq : UpperSeq[i] = c]
    ELSE c

\* String.prototype.toLowerCase
ToLowerCase(s) == [i \in DOMAIN s |-> LowerChar(s[i])]

\* String.prototype.includes
Includes(s, sub) ==
    \E i \in 0..(Len(s) - Len(sub)) : SubSeq(s, i + 1, i + Len(sub)) = sub

Max(a, b) == IF a >= b THEN a ELSE b

Min(a, b) == IF a <= b THEN a ELSE b

\* F(v), with v computed once and named inside F: a const declaration
With(v, F(_)) == CHOOSE out \in { F(r) : r \in {v} } : TRUE

\* String.prototype.slice(start): a negative start counts from the end
SliceFrom(s, start) ==
    SubSeq(s, (IF start < 0 THEN Max(Len(s) + start, 0) ELSE Min(start, Len(s))) + 1, Len(s))

\* String.prototype.slice(0, end) for end >= 0
SliceTo(s, end) == SubSeq(s, 1, Min(end, Len(s)))

(***************************************************************************)
(* DefaultSanitizer: the field lists                                       *)
(***************************************************************************)
SENSITIVE_FIELDS ==
    << <<"p","a","s","s","w","o","r","d">>,
       <<"t","o","k","e","n">>,
       <<"a","p","i","K","e","y">>,
       <<"a","p","i","_","k","e","y">>,
       <<"a","c","c","e","s","s","T","o","k","e","n">>,
       <<"a","c","c","e","s","s","_","t","o","k","e","n">>,
       <<"r","e","f","r","e","s","h","T","o","k","e","n">>,
       <<"r","e","f","r","e","s","h","_","t","o","k","e","n">>,
       <<"s","e","c","r","e","t">>,
       <<"s","e","c","r","e","t","K","e","y">>,
       <<"s","e","c","r","e","t","_","k","e","y">>,
       <<"p","r","i","v","a","t","e","K","e","y">>,
       <<"p","r","i","v","a","t","e","_","k","e","y">>,
       <<"c","r","e","d","i","t","C","a","r","d">>,
       <<"c","r","e","d","i","t","_","c","a","r","d">>,
       <<"c","a","r","d","N","u","m","b","e","r">>,
       <<"c","a","r","d","_","n","u","m","b","e","r">>,
       <<"c","v","v">>,
       <<"p","i","n">>,
       <<"s","s","n">>,
       <<"s","o","c","i","a","l","S","e","c","u","r","i","t","y","N","u","m","b","e","r">> >>

MASKABLE_FIELDS ==
    << <<"e","m","a","i","l">>,
       <<"p","h","o","n","e">>,
       <<"p","h","o","n","e","N","u","m","b","e","r">>,
       <<"p","h","o","n","e","_","n","u","m","b","e","r">> >>

\* the literal '[REDACTED]'
REDACTED == <<"[","R","E","D","A","C","T","E","D","]">>

\* the literal '[CARD_NUMBER]'
CARD_NUMBER == <<"[","C","A","R","D","_","N","U","M","B","E","R","]">>

\* the literal '***'
Stars == <<"*","*","*">>

\* a shouldRemoveField that asks for the whole key to be a sensitive name
ShouldRemoveFieldExact(key) ==
    \E field \in Range(SENSITIVE_FIELDS) : key = ToLowerCase(field)

\* shouldRemoveField(key): key is already lower-cased by the caller
ShouldRemoveField(key) ==
    \E field \in Range(SENSITIVE_FIELDS) :
        \E lowerField \in {ToLowerCase(field)} : Includes(key, lowerField)

\* shouldMaskField(key): key is already lower-cased by the caller
ShouldMaskField(key) ==
    \E field \in Range(MASKABLE_FIELDS) :
        \E lowerField \in {ToLowerCase(field)} : Includes(key, lowerField)

(***************************************************************************)
(* DefaultSanitizer: SENSITIVE_PATTERNS, matched as the regular            *)
(* expressions match.  A match attempt at position p (1-based) returns the *)
(* index of the last character of the match, or 0 when there is none.      *)
(***************************************************************************)
\* \b between s[i] and s[i+1], for i in 0..Len(s)
WordBoundary(s, i) ==
    (i >= 1 /\ IsWordChar(s[i])) # (i + 1 <= Len(s) /\ IsWordChar(s[i + 1]))

\* \d{n} at position p
DigitsAt(s, p, n) ==
    p + n - 1 <= Len(s) /\ \A k \in p..(p + n - 1) : IsDigit(s[k])

\* [-.\s]
PhoneSep(c) == c \in {"-", "."} \/ IsSpace(c)

\* [\s-]
CardSep(c) == IsSpace(c) \/ c = "-"

\* an optional separator at position a: the position after it
SkipSep(Sep(_), s, a) == IF a <= Len(s) /\ Sep(s[a]) THEN a + 1 ELSE a

\* phone: /\b\d{3}[-.\s]?\d{3}[-.\s]?\d{4}\b/g
PhoneEnd(s, p) ==
    With(SkipSep(PhoneSep, s, p + 3), LAMBDA b :
        With(SkipSep(PhoneSep, s, b + 3), LAMBDA d :
            IF /\ DigitsAt(s, p, 3)
               /\ WordBoundary(s, p - 1)
               /\ DigitsAt(s, b, 3)
               /\ DigitsAt(s, d, 4)
               /\ WordBoundary(s, d + 3)
            THEN d + 3
            ELSE 0))

\* creditCard: /\b\d{4}[\s-]?\d{4}[\s-]?\d{4}[\s-]?\d{4}\b/g
CardEnd(s, p) ==
    With(SkipSep(CardSep, s, p + 4), LAMBDA b :
        With(SkipSep(CardSep, s, b + 4), LAMBDA d :
            With(SkipSep(CardSep, s, d + 4), LAMBDA f :
                IF /\ DigitsAt(s, p, 4)
                   /\ WordBoundary(s, p - 1)
                   /\ DigitsAt(s, b, 4)
                   /\ DigitsAt(s, d, 4)
                   /\ DigitsAt(s, f, 4)
                   /\ WordBoundary(s, f + 3)
                THEN f + 3
                ELSE 0)))

\* [a-zA-Z0-9._-]
IsEmailChar(c) == IsLetter(c) \/ IsDigit(c) \/ c \in {".", "_", "-"}

\* [a-zA-Z0-9_-]
IsTldChar(c) == IsLetter(c) \/ IsDigit(c) \/ c \in {"_", "-"}

\* the least element of a non-empty set of numbers, 0 for the empty set
Least(S) == IF S = {} THEN 0 ELSE CHOOSE k \in S : \A j \in S : k <= j

\* the greatest element of a non-empty set of numbers, 0 for the empty set
Greatest(S) == IF S = {} THEN 0 ELSE CHOOSE k \in S : \A j \in S : j <= k

\* the last index of the longest run of characters satisfying Ok from p on
\* (p - 1 when s[p] does not satisfy it): a greedy "+" or "*"
RunEnd(Ok(_), s, p) ==
    With({ k \in p..Len(s) : ~Ok(s[k]) }, LAMBDA bad :
        IF bad = {} THEN Max(Len(s), p - 1) ELSE Least(bad) - 1)

\* email: /([a-zA-Z0-9._-]+@[a-zA-Z0-9._-]+\.[a-zA-Z0-9_-]+)/gi
\* The local part is the whole run up to the '@'; the greedy domain gives
\* back characters down to the last '.' that a top-level label follows.
EmailEnd(s, p) ==
    With(RunEnd(IsEmailChar, s, p), LAMBDA u :
        With(RunEnd(IsEmailChar, s, u + 2), LAMBDA b :
            With({ d \in (u + 3)..(b - 1) : s[d] = "." /\ IsTldChar(s[d + 1]) },
                 LAMBDA dots :
                IF /\ u >= p
                   /\ u + 1 <= Len(s)
                   /\ s[u + 1] = "@"
                   /\ dots # {}
                THEN RunEnd(IsTldChar, s, Greatest(dots) + 1)
                ELSE 0)))

\* the leftmost position >= from where a match starts, or 0
FirstMatch(End(_, _), s, from) == Least({ p \in from..Len(s) : End(s, p) # 0 })

\* String.prototype.indexOf of one character (1-based, 0 when absent)
IndexOf(s, c) == Least({ i \in DOMAIN s : s[i] = c })

\* the text before the first separator c, the whole text when there is none
UpTo(s, c) == With(IndexOf(s, c), LAMBDA at : IF at = 0 THEN s ELSE SubSeq(s, 1, at - 1))

\* username.slice(0, 3) + '***@' + domain, for [username, domain] = match.split('@')
MaskEmailMatch(match) ==
    With(IndexOf(match, "@"), LAMBDA at :
        SliceTo(SubSeq(match, 1, at - 1), 3) \o Stars \o <<"@">>
            \o With(SubSeq(match, at + 1, Len(match)), LAMBDA rest : UpTo(rest, "@")))

\* a replacement string of String.prototype.replace: "$&" stands for the match
RECURSIVE ExpandReplacement(_, _)
ExpandReplacement(tpl, match) ==
    IF tpl = <<>> THEN <<>>
    ELSE IF Len(tpl) >= 2 /\ tpl[1] = "$" /\ tpl[2] = "&"
         THEN match \o ExpandReplacement(SubSeq(tpl, 3, Len(tpl)), match)
    ELSE IF Len(tpl) >= 2 /\ tpl[1] = "$" /\ tpl[2] = "$"
         THEN <<"$">> \o ExpandReplacement(SubSeq(tpl, 3, Len(tpl)), match)
    ELSE <<tpl[1]>> \o ExpandReplacement(Tail(tpl), match)

\* '***-***-$&'.slice(-11), the replacement sanitizeString passes for a phone
PhoneReplacement == SliceFrom(<<"*","*","*","-","*","*","*","-","$","&">>, -11)

\* sanitized.replace(SENSITIVE_PATTERNS.creditCard, '[CARD_NUMBER]'), from position from on
RECURSIVE ReplaceCards(_, _)
ReplaceCards(s, from) ==
    With(FirstMatch(CardEnd, s, from), LAMBDA p :
        IF p = 0 THEN SubSeq(s, from, Len(s))
        ELSE With(CardEnd(s, p), LAMBDA e :
                 SubSeq(s, from, p - 1) \o CARD_NUMBER \o ReplaceCards(s, e + 1)))

\* sanitized.replace(SENSITIVE_PATTERNS.email, (match) => ...)
RECURSIVE ReplaceEmails(_, _)
ReplaceEmails(s, from) ==
    With(FirstMatch(EmailEnd, s, from), LAMBDA p :
        IF p = 0 THEN SubSeq(s, from, Len(s))
        ELSE With(EmailEnd(s, p), LAMBDA e :
                 SubSeq(s, from, p - 1)
                   \o With(SubSeq(s, p, e), LAMBDA match : MaskEmailMatch(match))
                   \o ReplaceEmails(s, e + 1)))

\* sanitized.replace(SENSITIVE_PATTERNS.phone, '***-***-$&'.slice(-11))
RECURSIVE ReplacePhones(_, _)
ReplacePhones(s, from) ==
    With(FirstMatch(PhoneEnd, s, from), LAMBDA p :
        IF p = 0 THEN SubSeq(s, from, Len(s))
        ELSE With(PhoneEnd(s, p), LAMBDA e :
                 SubSeq(s, from, p - 1)
                   \o With(SubSeq(s, p, e),
                           LAMBDA match : ExpandReplacement(PhoneReplacement, match))
                   \o ReplacePhones(s, e + 1)))

\* DefaultSanitizer.sanitizeString
SanitizeString(str) ==
    With(str, LAMBDA s0 :
        With(ReplaceCards(s0, 1), LAMBDA cards :
            With(ReplaceEmails(cards, 1), LAMBDA emails :
                ReplacePhones(emails, 1))))

(***************************************************************************)
(* JavaScript values                                                       *)
(***************************************************************************)
Undefined == <<"undef">>

Null == <<"null">>

StrVal(chars) == <<"str", chars>>

Kind(v) == v[1]

\* typeof v === 'object' (null included, as in JavaScript)
IsObjectType(v) == Kind(v) \in {"null", "arr", "obj", "err"}

\* the truthiness an if (v) tests: undefined, null, '' and 0 are falsy
Truthy(v) ==
    CASE Kind(v) \in {"undef", "null"} -> FALSE
      [] Kind(v) = "str" -> v[2] # <<>>
      [] Kind(v) = "num" -> v[2] # <<"0">>
      [] OTHER -> TRUE

\* Object.entries(v): the own enumerable string-keyed properties, in order.
\* An Error's message and stack are not enumerable.
Entries(v) ==
    CASE Kind(v) = "obj" -> v[2]
      [] Kind(v) = "err" -> v[3]
      [] OTHER -> <<>>

\* Object.keys(v)
MapKeysOf(v) == [i \in DOMAIN Entries(v) |-> Entries(v)[i][1]]

\* String(v)
RECURSIVE ToStr(_)
RECURSIVE JoinItems(_, _)
JoinItems(items, i) ==
    IF i > Len(items) THEN <<>>
    ELSE (IF i > 1 THEN <<",">> ELSE <<>>)
           \o (IF Kind(items[i]) \in {"undef", "null"} THEN <<>> ELSE ToStr(items[i]))
           \o JoinItems(items, i + 1)

ToStr(v) ==
    CASE Kind(v) = "undef" -> <<"u","n","d","e","f","i","n","e","d">>
      [] Kind(v) = "null"  -> <<"n","u","l","l">>
      [] Kind(v) \in {"str", "num"} -> v[2]
      [] Kind(v) = "arr"   -> JoinItems(v[2], 1)
      [] Kind(v) = "err"   ->
           <<"E","r","r","o","r">> \o (IF v[2] = <<>> THEN <<>> ELSE <<":"," ">> \o v[2])
      [] OTHER -> <<"[","o","b","j","e","c","t"," ","O","b","j","e","c","t","]">>

(***************************************************************************)
(* DefaultSanitizer.  SENSITIVE_PATTERNS.phone is a module-level regular   *)
(* expression with the g flag: RegExp.test starts at its lastIndex and     *)
(* leaves it after the match (0 when none); String.replace resets it to 0. *)
(* Each operator takes that lastIndex (li) and returns [out, li].  The     *)
(* email pattern is at lastIndex 0 whenever maskField is entered: match()  *)
(* and replace() both leave it at 0.                                       *)
(***************************************************************************)
\* the generic mask: slice(0, 2) + '***' + slice(-2), or '***'
GenericMask(stringValue) ==
    IF Len(stringValue) > 4
    THEN SliceTo(stringValue, 2) \o Stars \o SliceFrom(stringValue, -2)
    ELSE Stars

\* maskField on String(value) and the lower-cased key
MaskString(lowerKey, stringValue, li) ==
    With(FirstMatch(EmailEnd, stringValue, 1), LAMBDA emailAt :
      With(FirstMatch(PhoneEnd, stringValue, li + 1), LAMBDA phoneAt :
        IF Includes(lowerKey, <<"e","m","a","i","l">>) /\ emailAt # 0
        THEN [out |-> With(SubSeq(stringValue, emailAt, EmailEnd(stringValue, emailAt)),
                           LAMBDA match : MaskEmailMatch(match)),
              li  |-> li]
        ELSE IF Includes(lowerKey, <<"p","h","o","n","e">>) /\ phoneAt # 0
        THEN [out |-> <<"*","*","*","-","*","*","*","-">> \o SliceFrom(stringValue, -4),
              li  |-> PhoneEnd(stringValue, phoneAt)]
        ELSE [out |-> GenericMask(stringValue),
              li  |-> IF Includes(lowerKey, <<"p","h","o","n","e">>) THEN 0 ELSE li]))

\* DefaultSanitizer.maskField
MaskField(key, value, li) ==
    With(ToLowerCase(key), LAMBDA lowerKey :
        With(ToStr(value), LAMBDA stringValue : MaskString(lowerKey, stringValue, li)))

\* a [out, li] result with its output wrapped as a string value
AsStrVal(r) == [out |-> StrVal(r.out), li |-> r.li]

\* a [out, li] result with its output wrapped as an array or an object
AsValue(kind, r) == [out |-> <<kind, r.out>>, li |-> r.li]

\* the results so far with one more item, or one more entry, behind them
PushItem(acc, r) == [out |-> Append(acc.out, r.out), li |-> r.li]

PushEntry(acc, key, r) == [out |-> Append(acc.out, <<key, r.out>>), li |-> r.li]

RECURSIVE Sanitize(_, _)
RECURSIVE SanitizeItems(_, _, _)
RECURSIVE SanitizeEntries(_, _, _)

\* data.map((item) => this.sanitize(item)), from item i on; acc is [out, li],
\* the items sanitized so far and the lastIndex they left
SanitizeItems(items, i, acc) ==
    IF i > Len(items) THEN acc
    ELSE SanitizeItems(items, i + 1, PushItem(acc, Sanitize(items[i], acc.li)))

\* the body of the for loop over Object.entries(data), for one entry
SanitizeEntry(key, value, li) ==
    IF ShouldRemoveField(ToLowerCase(key))
    THEN [out |-> StrVal(REDACTED), li |-> li]
    ELSE IF ShouldMaskField(ToLowerCase(key))
    THEN AsStrVal(MaskField(key, value, li))
    ELSE Sanitize(value, li)

\* the for loop over Object.entries(data), from entry i on
SanitizeEntries(entries, i, acc) ==
    IF i > Len(entries) THEN acc
    ELSE SanitizeEntries(entries, i + 1,
             PushEntry(acc, entries[i][1],
                       SanitizeEntry(entries[i][1], entries[i][2], acc.li)))

\* DefaultSanitizer.sanitize
Sanitize(data, li) ==
    CASE Kind(data) \in {"undef", "null"} -> [out |-> data, li |-> li]
      [] Kind(data) \in {"str", "num"} ->
           [out |-> StrVal(SanitizeString(ToStr(data))), li |-> 0]
      [] Kind(data) = "arr" ->
           AsValue("arr", SanitizeItems(data[2], 1, [out |-> <<>>, li |-> li]))
      [] OTHER ->
           AsValue("obj", SanitizeEntries(Entries(data), 1, [out |-> <<>>, li |-> li]))

(***************************************************************************)
(* Property access on a value                                              *)
(***************************************************************************)
KeyLevel == <<"l","e","v","e","l">>

KeyMessage == <<"m","e","s","s","a","g","e">>

KeyJson == <<"j","s","o","n">>

KeyFormattedOutput == <<"_","f","o","r","m","a","t","t","e","d","O","u","t","p","u","t">>

\* obj[key], Undefined when obj has no such own property
GetProp(obj, key) ==
    With({ i \in DOMAIN Entries(obj) : Entries(obj)[i][1] = key }, LAMBDA at :
        IF at = {} THEN Undefined ELSE Entries(obj)[CHOOSE i \in at : TRUE][2])

(***************************************************************************)
(* The bounds of the model and the finite sets the inputs are drawn from   *)
(***************************************************************************)
\* how many LoggerRepository instances are ever constructed
MaxInst == 2

\* how many asynchronous repository calls may be awaiting at once
MaxPending == 2

\* the names adapters are registered under
Names == {"n1", "n2"}

\* the adapter objects of the application
AdapterObjs == {"A", "B"}

\* "Default" is a DefaultSanitizer; the others are the application's own
\* sanitizers, of which "Bad" throws from sanitize
Sanitizers == {"Default", "S1", "S2", "S3", "Bad"}

Throwing == {"Bad"}

NoSanitizer == "none"

(***************************************************************************)
(* The state                                                               *)
(***************************************************************************)
VARIABLES
    instance,          \* LoggerRepository.instance: an instance id, 0 for null
    created,           \* how many instances were constructed; their ids are 1..created
    adapters,          \* adapters[i]: the Map of instance i, a sequence of [name, adapter]
    enabled,           \* enabled[i]
    config,            \* config[i]
    defaultSanitizer,  \* defaultSanitizer[i]
    registry,          \* sanitizerRegistry.sanitizers: lower-cased tag -> sanitizer
    phoneLastIndex,    \* SENSITIVE_PATTERNS.phone.lastIndex
    adEnabled,         \* adEnabled[a]: adapter a's enabled field, what isEnabled() returns
    pending,           \* the asynchronous calls suspended at their await
    last,              \* what the last call did and returned
    regOrder,          \* history: per instance, the registered names in the order of
                       \* their first registration since they were last absent
    gate,              \* history: per instance, the last of enable/disable/destroy
    returned,          \* history: the instances getInstance has returned
    prevRet,           \* history: what the previous getInstance returned (0: none)
    resetSince,        \* history: resetInstance was called since the previous getInstance
    repository,        \* logger.repository: the instance the exported logger holds,
                       \* 0 while logger-instance.ts is not loaded
    initialized,       \* logger.initialized
    loggerHist         \* history: the registrations made through the logger since the
                       \* last resetInstance, and whether one of them has resolved

vars ==
    << instance, created, adapters, enabled, config, defaultSanitizer, registry,
       phoneLastIndex, adEnabled, pending, last, regOrder, gate, returned,
       prevRet, resetSince, repository, initialized, loggerHist >>

\* the state of the exported logger and its history
loggerVars == << repository, initialized, loggerHist >>

Insts == 1..MaxInst

(***************************************************************************)
(* The adapter Map: insertion-ordered, set() on a present key keeps its    *)
(* place                                                                   *)
(***************************************************************************)
MapHas(m, name) == \E k \in DOMAIN m : m[k].name = name

\* Map.prototype.get, "none" for undefined
MapGet(m, name) ==
    IF MapHas(m, name) THEN m[CHOOSE k \in DOMAIN m : m[k].name = name].adapter
    ELSE "none"

\* Map.prototype.set
MapSet(m, name, a) ==
    IF MapHas(m, name)
    THEN [k \in DOMAIN m |-> IF m[k].name = name THEN [name |-> name, adapter |-> a] ELSE m[k]]
    ELSE Append(m, [name |-> name, adapter |-> a])

\* Map.prototype.delete
MapDelete(m, name) == SelectSeq(m, LAMBDA e : e.name # name)

\* Array.from(map.values())
MapValues(m) == [k \in DOMAIN m |-> m[k].adapter]

MapKeys(m) == [k \in DOMAIN m |-> m[k].name]

(***************************************************************************)
(* Log options (EnhancedLogOptions).  present = FALSE is an undefined      *)
(* options argument; an absent field is Undefined, an absent tag is the    *)
(* empty string (both falsy), an absent sanitizer is "none".               *)
(***************************************************************************)
NoOptions ==
    [present |-> FALSE, tag |-> <<>>, data |-> Undefined, metadata |-> Undefined,
     error |-> Undefined, sanitizer |-> NoSanitizer, skipSanitization |-> FALSE]

Options(tag, data, metadata, error, sanitizer, skip) ==
    [present |-> TRUE, tag |-> tag, data |-> data, metadata |-> metadata,
     error |-> error, sanitizer |-> sanitizer, skipSanitization |-> skip]

\* LoggerRepositoryConfig: sanitization.present = FALSE is a config without
\* a sanitization object; enabled = FALSE covers an undefined enabled
NoConfig ==
    [sanitization |-> [present |-> FALSE, enabled |-> FALSE, defaultSanitizer |-> NoSanitizer],
     formatter |-> "none"]

Config(sanEnabled, sanDefault, formatter) ==
    [sanitization |-> [present |-> TRUE, enabled |-> sanEnabled, defaultSanitizer |-> sanDefault],
     formatter |-> formatter]

(***************************************************************************)
(* SanitizerRegistry                                                       *)
(***************************************************************************)
\* SanitizerRegistry.register
RegistryRegister(reg, tag, sanitizer) ==
    [k \in DOMAIN reg \cup {ToLowerCase(tag)} |->
        IF k = ToLowerCase(tag) THEN sanitizer ELSE reg[k]]

\* SanitizerRegistry.unregister
RegistryUnregister(reg, tag) ==
    [k \in DOMAIN reg \ {ToLowerCase(tag)} |-> reg[k]]

\* SanitizerRegistry.get, "none" for undefined
RegistryGet(reg, tag) ==
    IF tag = <<>> THEN NoSanitizer
    ELSE IF ToLowerCase(tag) \in DOMAIN reg THEN reg[ToLowerCase(tag)]
    ELSE NoSanitizer

\* SanitizerRegistry.has
RegistryHas(reg, tag) == ToLowerCase(tag) \in DOMAIN reg

\* SanitizerRegistry.clear
RegistryClear == << >>

(***************************************************************************)
(* LoggerRepository: the sanitization of one log call                      *)
(***************************************************************************)
\* a getSanitizer that consults the registry only when the config enables
\* sanitization
GetSanitizerWhenEnabled(i, options) ==
    IF options.sanitizer # NoSanitizer THEN options.sanitizer
    ELSE IF ~(config[i].sanitization.present /\ config[i].sanitization.enabled)
         THEN NoSanitizer
    ELSE IF options.tag # <<>> /\ RegistryGet(registry, options.tag) # NoSanitizer
         THEN RegistryGet(registry, options.tag)
    ELSE defaultSanitizer[i]

\* a getSanitizer for which a tag ends the search: a tagged call gets the
\* registered sanitizer or none, the default sanitizer is for untagged calls
GetSanitizerTagOnly(i, options) ==
    IF options.sanitizer # NoSanitizer THEN options.sanitizer
    ELSE IF options.tag # <<>> THEN RegistryGet(registry, options.tag)
    ELSE IF config[i].sanitization.present /\ config[i].sanitization.enabled
         THEN defaultSanitizer[i]
    ELSE NoSanitizer

\* LoggerRepository.getSanitizer
GetSanitizer(i, options) ==
    IF options.sanitizer # NoSanitizer THEN options.sanitizer
    ELSE IF options.tag # <<>> /\ RegistryGet(registry, options.tag) # NoSanitizer
         THEN RegistryGet(registry, options.tag)
    ELSE IF config[i].sanitization.present /\ config[i].sanitization.enabled
         THEN defaultSanitizer[i]
    ELSE NoSanitizer

\* sanitizer.sanitize(v): the DefaultSanitizer, or the application's own
\* sanitizer, whose result is kept as the term <<"san", sanitizer, v>>
ApplySanitizer(sanitizer, v, li) ==
    IF sanitizer = "Default" THEN Sanitize(v, li)
    ELSE [out |-> <<"san", sanitizer, v>>, li |-> li]

\* which of data, metadata and error sanitizeContext hands to the sanitizer
SanitizedField(options, field) ==
    CASE field = "data"     -> Truthy(options.data)
      [] field = "metadata" -> Truthy(options.metadata)
      [] field = "error"    -> Truthy(options.error) /\ IsObjectType(options.error)

\* an assignment to sanitizedContext that is one to the caller's options
\* too, as it is when sanitizedContext is the options object itself
CallerSharesAssign(caller, field, v) == [caller EXCEPT ![field] = v]

\* the caller's options after sanitizedContext[field] = v: sanitizedContext
\* is the copy { ...options }, the assignment does not reach the caller's
CallerAfterAssign(caller, field, v) == caller

\* acc after sanitizer.sanitize(v) returned r
Sanitized(acc, field, sanitizer, v, r) ==
    [ctx   |-> [acc.ctx EXCEPT ![field] = r.out],
     caller |-> CallerAfterAssign(acc.caller, field, r.out),
     li    |-> r.li,
     threw |-> FALSE,
     calls |-> Append(acc.calls, <<sanitizer, v>>)]

\* one of sanitizeContext's three steps; acc is [ctx, li, threw, calls], calls
\* the sanitize invocations so far as <<sanitizer, argument>>
SanitizeField(acc, options, sanitizer, field) ==
    IF acc.threw \/ ~SanitizedField(options, field) THEN acc
    ELSE IF sanitizer \in Throwing
    THEN [acc EXCEPT !.threw = TRUE,
                     !.calls = Append(@, <<sanitizer, options[field]>>)]
    ELSE With(ApplySanitizer(sanitizer, options[field], acc.li),
              LAMBDA r : Sanitized(acc, field, sanitizer, options[field], r))

\* a sanitizeContext that does not look at skipSanitization
SanitizeContextNoSkip(i, options, li) ==
    With([ctx |-> options, caller |-> options, li |-> li, threw |-> FALSE,
          calls |-> <<>>], LAMBDA asIs :
      With(GetSanitizer(i, options), LAMBDA sanitizer :
        IF ~options.present THEN asIs
        ELSE IF sanitizer = NoSanitizer THEN asIs
        ELSE With(SanitizeField(asIs, options, sanitizer, "data"), LAMBDA d :
               With(SanitizeField(d, options, sanitizer, "metadata"), LAMBDA m :
                 SanitizeField(m, options, sanitizer, "error")))))

\* LoggerRepository.sanitizeContext: [ctx, caller, li, threw, calls], ctx the
\* context it returns, caller the options object of the caller afterwards
SanitizeContext(i, options, li) ==
    With([ctx |-> options, caller |-> options, li |-> li, threw |-> FALSE,
          calls |-> <<>>], LAMBDA asIs :
      With(GetSanitizer(i, options), LAMBDA sanitizer :
        IF ~options.present \/ options.skipSanitization THEN asIs
        ELSE IF sanitizer = NoSanitizer THEN asIs
        ELSE With(SanitizeField(asIs, options, sanitizer, "data"), LAMBDA d :
               With(SanitizeField(d, options, sanitizer, "metadata"), LAMBDA m :
                 SanitizeField(m, options, sanitizer, "error")))))

\* a loop without the try/catch around adapter.log: the first throw ends it
\* and leaves log
FanOutNoCatch(m, level, message, ctx, throwers) ==
    With(Least({ k \in DOMAIN m : m[k].adapter \in throwers }), LAMBDA first :
        [calls |-> [k \in (IF first = 0 THEN DOMAIN m ELSE 1..first) |->
                       [name |-> m[k].name, adapter |-> m[k].adapter, level |-> level,
                        message |-> message, ctx |-> ctx,
                        threw |-> m[k].adapter \in throwers]],
         threw |-> first # 0])

\* the for loop of LoggerRepository.log: every adapter of the Map in order,
\* a throw of adapter.log caught.  throwers are the adapters whose log throws.
FanOut(m, level, message, ctx, throwers) ==
    [calls |-> [k \in DOMAIN m |->
                   [name |-> m[k].name, adapter |-> m[k].adapter, level |-> level,
                    message |-> message, ctx |-> ctx, threw |-> m[k].adapter \in throwers]],
     threw |-> FALSE]

(***************************************************************************)
(* What a call did, as its caller and the adapters see it                  *)
(***************************************************************************)
NoObs ==
    [op        |-> "none",    \* the call
     inst      |-> 0,         \* the instance it was made on
     name      |-> "-",       \* registerAdapter/unregisterAdapter: the name
     adapter   |-> "-",       \* registerAdapter: the adapter
     initOk    |-> TRUE,      \* registerAdapter: initialize did not throw or reject
     isEnabled |-> FALSE,     \* registerAdapter: isEnabled() was called and returned true
     settled   |-> "returned",\* returned | threw | pending | resolved | rejected
     destroyed |-> <<>>,      \* the adapters whose destroy() the call invoked, in order
     before    |-> <<>>,      \* the adapter Map when the call started to run
     level     |-> <<>>,      \* log: the arguments
     message   |-> <<>>,
     options   |-> NoOptions,
     calls     |-> <<>>,      \* log: the adapter.log invocations, in order
     sanCalls  |-> <<>>,      \* log: the sanitize invocations, in order
     ret       |-> 0,         \* getInstance: the instance returned
     forwarded |-> <<>>,      \* logger.log: the arguments it gave repository.log
     optionsAfter |-> NoOptions, \* log: the caller's options object after the call
     tag       |-> <<>>,      \* registry calls: the tag and the sanitizer
     sanitizer |-> NoSanitizer,
     arg       |-> Undefined, \* sanitize: the argument and the value returned
     out       |-> Undefined,
     held      |-> [props |-> NoConfig, same |-> {}],
                              \* getConfig: the object returned, as the caller holds it
     cfgBefore |-> NoConfig,  \* getConfig, updateConfig: this.config before the call
     partial   |-> [has |-> {}, sanitization |-> NoConfig.sanitization,
                    formatter |-> "none"]]
                              \* updateConfig: its argument

\* the logger's history before any call
NoLoggerHist == [regs |-> <<>>, resolved |-> FALSE]

\* one suspended asynchronous call with what it holds across its await:
\* this, its arguments, unregisterAdapter's adapter, and for destroy the
\* adapters its destroyPromises stand for (destroyed)
Pending(op, i, name, a, ok) ==
    [op |-> op, inst |-> i, name |-> name, adapter |-> a, ok |-> ok,
     destroyed |-> <<>>]

\* the registered names in the order of their first registration: the names
\* no longer in the Map leave, a name new to the Map is the youngest
UpdateOrder(order, m) ==
    SelectSeq(order, LAMBDA n : MapHas(m, n))
        \o SelectSeq(MapKeys(m), LAMBDA n : n \notin Range(order))

(***************************************************************************)
(* LoggerRepository: the singleton                                         *)
(***************************************************************************)
\* getInstance: the instance returned, a new one when the static field is null
GetInstanceRet == IF instance = 0 THEN created + 1 ELSE instance

\* a resetInstance that leaves the static field as it is
KeepInstanceRef == instance

\* the static field after resetInstance
ResetInstanceRef == 0

\* the constructor's defaultSanitizer
ConstructDefaultSanitizer(cfg) ==
    IF cfg.sanitization.present /\ cfg.sanitization.defaultSanitizer # NoSanitizer
    THEN cfg.sanitization.defaultSanitizer
    ELSE "Default"

GetInstance(cfg) ==
    LET id == GetInstanceRet
    IN  /\ id \in Insts
        /\ IF id \in 1..created
           THEN UNCHANGED <<created, adapters, enabled, config, defaultSanitizer>>
           ELSE /\ created' = id
                /\ adapters' = [adapters EXCEPT ![id] = <<>>]
                /\ enabled' = [enabled EXCEPT ![id] = FALSE]
                /\ config' = [config EXCEPT ![id] = cfg]
                /\ defaultSanitizer' =
                       [defaultSanitizer EXCEPT ![id] = ConstructDefaultSanitizer(cfg)]
        /\ instance' = id
        /\ last' = [NoObs EXCEPT !.op = "getInstance", !.inst = id, !.ret = id]
        /\ returned' = returned \cup {id}
        /\ prevRet' = id
        /\ resetSince' = FALSE
        /\ UNCHANGED loggerVars
        /\ UNCHANGED <<registry, phoneLastIndex, adEnabled, pending, regOrder, gate>>

(***************************************************************************)
(* LoggerRepository: adapters                                              *)
(***************************************************************************)
\* a registerAdapter that goes on to isEnabled() after a failed initialize
RegisterResultIgnoringInit(m, name, a, initOk, isEn) ==
    IF isEn THEN MapSet(m, name, a) ELSE m

\* a registerAdapter that does not ask isEnabled()
RegisterResultIgnoringEnabled(m, name, a, initOk, isEn) ==
    IF initOk THEN MapSet(m, name, a) ELSE m

\* a registerAdapter that, when it does not set the adapter, removes what
\* the name held
RegisterResultDropOnFail(m, name, a, initOk, isEn) ==
    IF initOk /\ isEn THEN MapSet(m, name, a) ELSE MapDelete(m, name)

\* the outcome of registerAdapter's try block on the Map: the adapter is set
\* when initialize did not fail and isEnabled() returns true
RegisterResult(m, name, a, initOk, isEn) ==
    IF initOk /\ isEn THEN MapSet(m, name, a) ELSE m

\* registerAdapter from its call to the await of adapter.initialize(config);
\* without a config there is no await and the call runs to its end.
\* cfg is "none", or the config's enabled as "on"/"off"; initOk is whether
\* initialize succeeds (it sets the adapter's enabled flag as the adapters
\* of this package do).
RegisterStart(i, name, a, cfg, initOk) ==
    /\ i \in 1..created
    /\ IF cfg = "none"
       THEN /\ initOk
            /\ adapters' = [adapters EXCEPT
                               ![i] = RegisterResult(@, name, a, TRUE, adEnabled[a])]
            /\ regOrder' = [regOrder EXCEPT ![i] = UpdateOrder(@, adapters'[i])]
            /\ last' = [NoObs EXCEPT !.op = "registerAdapter", !.inst = i, !.name = name,
                                     !.adapter = a, !.isEnabled = adEnabled[a],
                                     !.settled = "resolved", !.before = adapters[i]]
            /\ UNCHANGED <<adEnabled, pending>>
       ELSE /\ Cardinality(pending) < MaxPending
            /\ adEnabled' = IF initOk THEN [adEnabled EXCEPT ![a] = (cfg = "on")]
                            ELSE adEnabled
            /\ pending' = pending \cup {Pending("registerAdapter", i, name, a, initOk)}
            /\ last' = [NoObs EXCEPT !.op = "registerAdapter", !.inst = i, !.name = name,
                                     !.adapter = a, !.initOk = initOk,
                                     !.settled = "pending", !.before = adapters[i]]
            /\ UNCHANGED <<adapters, regOrder>>
    /\ UNCHANGED loggerVars
    /\ UNCHANGED <<instance, created, enabled, config, defaultSanitizer, registry,
                   phoneLastIndex, gate, returned, prevRet, resetSince>>

\* registerAdapter after the await: isEnabled(), Map.set, or the catch block
RegisterFinish(p) ==
    /\ p \in pending
    /\ p.op = "registerAdapter"
    /\ adapters' = [adapters EXCEPT
           ![p.inst] = RegisterResult(@, p.name, p.adapter, p.ok, adEnabled[p.adapter])]
    /\ regOrder' = [regOrder EXCEPT ![p.inst] = UpdateOrder(@, adapters'[p.inst])]
    /\ pending' = pending \ {p}
    /\ last' = [NoObs EXCEPT !.op = "registerAdapter", !.inst = p.inst, !.name = p.name,
                             !.adapter = p.adapter, !.initOk = p.ok,
                             !.isEnabled = p.ok /\ adEnabled[p.adapter],
                             !.settled = "resolved", !.before = adapters[p.inst]]
    /\ UNCHANGED loggerVars
    /\ UNCHANGED <<instance, created, enabled, config, defaultSanitizer, registry,
                   phoneLastIndex, adEnabled, gate, returned, prevRet, resetSince>>

\* unregisterAdapter from its call to the await of adapter.destroy().catch(...).
\* outcome is what destroy() does: "resolve", "reject", or "throw" before it
\* returns a promise, which rejects unregisterAdapter's own promise.
UnregisterStart(i, name, outcome) ==
    LET a == MapGet(adapters[i], name)
    IN  /\ i \in 1..created
        /\ IF a = "none"
           THEN /\ outcome = "resolve"
                /\ last' = [NoObs EXCEPT !.op = "unregisterAdapter", !.inst = i,
                                         !.name = name, !.settled = "resolved",
                                         !.before = adapters[i]]
                /\ UNCHANGED <<adEnabled, pending>>
           ELSE /\ outcome = "throw" \/ Cardinality(pending) < MaxPending
                /\ adEnabled' = IF outcome = "resolve"
                                THEN [adEnabled EXCEPT ![a] = FALSE] ELSE adEnabled
                /\ pending' = IF outcome = "throw" THEN pending
                              ELSE pending \cup {Pending("unregisterAdapter", i, name, a, TRUE)}
                /\ last' = [NoObs EXCEPT !.op = "unregisterAdapter", !.inst = i,
                                         !.name = name, !.adapter = a,
                                         !.destroyed = <<a>>,
                                         !.settled = IF outcome = "throw" THEN "rejected"
                                                     ELSE "pending",
                                         !.before = adapters[i]]
        /\ UNCHANGED loggerVars
        /\ UNCHANGED <<instance, created, adapters, enabled, config, defaultSanitizer,
                       registry, phoneLastIndex, regOrder, gate, returned, prevRet,
                       resetSince>>

\* unregisterAdapter after the await: Map.delete(name)
UnregisterFinish(p) ==
    /\ p \in pending
    /\ p.op = "unregisterAdapter"
    /\ adapters' = [adapters EXCEPT ![p.inst] = MapDelete(@, p.name)]
    /\ regOrder' = [regOrder EXCEPT ![p.inst] = UpdateOrder(@, adapters'[p.inst])]
    /\ pending' = pending \ {p}
    /\ last' = [NoObs EXCEPT !.op = "unregisterAdapter", !.inst = p.inst, !.name = p.name,
                             !.adapter = p.adapter, !.destroyed = <<p.adapter>>,
                             !.settled = "resolved", !.before = adapters[p.inst]]
    /\ UNCHANGED loggerVars
    /\ UNCHANGED <<instance, created, enabled, config, defaultSanitizer, registry,
                   phoneLastIndex, adEnabled, gate, returned, prevRet, resetSince>>

(***************************************************************************)
(* LoggerRepository: destroy, resetInstance, enable, disable               *)
(***************************************************************************)
\* a destroy() that leaves this.enabled as it is
KeepEnabled(e) == e

\* a destroy() that empties the sanitizer registry with the adapter Map
RegistryClearedByDestroy(reg) == << >>

\* the sanitizer registry after destroy(): the registry is an object of its
\* own module, destroy() and resetInstance() make no call on it
RegistryAfterDestroy(reg) == reg

\* the value destroy() gives this.enabled before it tears the adapters down
EnabledAfterDestroy(e) == FALSE

\* destroy() from its call to the await of Promise.all: enabled = false, then
\* adapter.destroy().catch(...) on every adapter of the Map, in order.
\* outcomes[k] is what the k-th adapter's destroy() does; a "throw" ends the
\* map() there and rejects destroy()'s promise, the Map is not cleared.
DestroyEffects(i, outcomes) ==
    LET vals    == MapValues(adapters[i])
        throws  == { k \in DOMAIN vals : outcomes[k] = "throw" }
        thrower == IF throws = {} THEN 0 ELSE CHOOSE k \in throws : \A j \in throws : k <= j
        called  == IF thrower = 0 THEN vals ELSE SubSeq(vals, 1, thrower)
        down    == { vals[k] : k \in { j \in DOMAIN called : outcomes[j] = "resolve" } }
    IN  /\ thrower # 0 \/ Cardinality(pending) < MaxPending
        /\ enabled' = [enabled EXCEPT ![i] = EnabledAfterDestroy(@)]
        /\ gate' = [gate EXCEPT ![i] = "destroyed"]
        /\ registry' = RegistryAfterDestroy(registry)
        /\ adEnabled' = [a \in AdapterObjs |-> IF a \in down THEN FALSE ELSE adEnabled[a]]
        /\ pending' = IF thrower = 0
                      THEN pending \cup {[Pending("destroy", i, "-", "-", TRUE)
                                               EXCEPT !.destroyed = called]}
                      ELSE pending
        /\ last' = [NoObs EXCEPT !.op = "destroy", !.inst = i, !.destroyed = called,
                                 !.settled = IF thrower = 0 THEN "pending" ELSE "rejected",
                                 !.before = adapters[i]]

DestroyOutcomes(i) == [DOMAIN adapters[i] -> {"resolve", "reject", "throw"}]

Destroy(i, outcomes) ==
    /\ i \in 1..created
    /\ DestroyEffects(i, outcomes)
    /\ UNCHANGED loggerVars
    /\ UNCHANGED <<instance, created, adapters, config, defaultSanitizer,
                   phoneLastIndex, regOrder, returned, prevRet, resetSince>>

\* destroy() after the await: this.adapters.clear()
DestroyFinish(p) ==
    /\ p \in pending
    /\ p.op = "destroy"
    /\ adapters' = [adapters EXCEPT ![p.inst] = <<>>]
    /\ regOrder' = [regOrder EXCEPT ![p.inst] = UpdateOrder(@, adapters'[p.inst])]
    /\ pending' = pending \ {p}
    /\ last' = [NoObs EXCEPT !.op = "destroy", !.inst = p.inst, !.settled = "resolved",
                             !.destroyed = p.destroyed, !.before = adapters[p.inst]]
    /\ UNCHANGED loggerVars
    /\ UNCHANGED <<instance, created, enabled, config, defaultSanitizer, registry,
                   phoneLastIndex, adEnabled, gate, returned, prevRet, resetSince>>

\* resetInstance: instance.destroy().catch(...) and instance = null, in one go;
\* the destroy it started ends later, in DestroyFinish
ResetInstance(outcomes) ==
    /\ IF instance = 0
       THEN /\ outcomes = <<>>
            /\ last' = [NoObs EXCEPT !.op = "resetInstance"]
            /\ UNCHANGED <<instance, enabled, gate, registry, adEnabled, pending>>
       ELSE /\ outcomes \in DestroyOutcomes(instance)
            /\ DestroyEffects(instance, outcomes)
            /\ instance' = ResetInstanceRef
    /\ resetSince' = TRUE
    /\ loggerHist' = [loggerHist EXCEPT !.regs = <<>>]
    /\ UNCHANGED <<created, adapters, config, defaultSanitizer,
                   phoneLastIndex, regOrder, returned, prevRet, repository,
                   initialized>>

Enable(i) ==
    /\ i \in 1..created
    /\ enabled' = [enabled EXCEPT ![i] = TRUE]
    /\ gate' = [gate EXCEPT ![i] = "enabled"]
    /\ last' = [NoObs EXCEPT !.op = "enable", !.inst = i]
    /\ UNCHANGED loggerVars
    /\ UNCHANGED <<instance, created, adapters, config, defaultSanitizer, registry,
                   phoneLastIndex, adEnabled, pending, regOrder, returned, prevRet,
                   resetSince>>

Disable(i) ==
    /\ i \in 1..created
    /\ enabled' = [enabled EXCEPT ![i] = FALSE]
    /\ gate' = [gate EXCEPT ![i] = "disabled"]
    /\ last' = [NoObs EXCEPT !.op = "disable", !.inst = i]
    /\ UNCHANGED loggerVars
    /\ UNCHANGED <<instance, created, adapters, config, defaultSanitizer, registry,
                   phoneLastIndex, adEnabled, pending, regOrder, returned, prevRet,
                   resetSince>>

(***************************************************************************)
(* LoggerRepository.log                                                    *)
(***************************************************************************)
\* the gate at the top of log
LogGate(i) == enabled[i]

Log(i, level, message, options, throwers) ==
    /\ i \in 1..created
    /\ throwers \subseteq Range(MapValues(adapters[i]))
    /\ IF ~LogGate(i)
       THEN /\ throwers = {}
            /\ last' = [NoObs EXCEPT !.op = "log", !.inst = i, !.level = level,
                                     !.message = message, !.options = options,
                                     !.optionsAfter = options]
            /\ UNCHANGED phoneLastIndex
       ELSE \E sc \in {SanitizeContext(i, options, phoneLastIndex)} :
            \E fo \in {FanOut(adapters[i], level, message, sc.ctx, throwers)} :
                /\ sc.threw => throwers = {}
                /\ phoneLastIndex' = sc.li
                /\ last' = [NoObs EXCEPT
                               !.op = "log", !.inst = i, !.level = level,
                               !.message = message, !.options = options,
                               !.optionsAfter = sc.caller,
                               !.sanCalls = sc.calls,
                               !.calls = IF sc.threw THEN <<>> ELSE fo.calls,
                               !.settled = IF sc.threw \/ fo.threw THEN "threw"
                                           ELSE "returned"]
    /\ UNCHANGED loggerVars
    /\ UNCHANGED <<instance, created, adapters, enabled, config, defaultSanitizer,
                   registry, adEnabled, pending, regOrder, gate, returned, prevRet,
                   resetSince>>

(***************************************************************************)
(* The sanitizer registry's operations; registerSanitizer of the           *)
(* repository is sanitizerRegistry.register                                *)
(***************************************************************************)
RegisterSanitizer(tag, sanitizer) ==
    /\ registry' = RegistryRegister(registry, tag, sanitizer)
    /\ last' = [NoObs EXCEPT !.op = "registerSanitizer", !.tag = tag,
                             !.sanitizer = sanitizer]
    /\ UNCHANGED loggerVars
    /\ UNCHANGED <<instance, created, adapters, enabled, config, defaultSanitizer,
                   phoneLastIndex, adEnabled, pending, regOrder, gate, returned,
                   prevRet, resetSince>>

UnregisterSanitizer(tag) ==
    /\ registry' = RegistryUnregister(registry, tag)
    /\ last' = [NoObs EXCEPT !.op = "unregisterSanitizer", !.tag = tag]
    /\ UNCHANGED loggerVars
    /\ UNCHANGED <<instance, created, adapters, enabled, config, defaultSanitizer,
                   phoneLastIndex, adEnabled, pending, regOrder, gate, returned,
                   prevRet, resetSince>>

ClearSanitizers ==
    /\ registry' = RegistryClear
    /\ last' = [NoObs EXCEPT !.op = "clearSanitizers"]
    /\ UNCHANGED loggerVars
    /\ UNCHANGED <<instance, created, adapters, enabled, config, defaultSanitizer,
                   phoneLastIndex, adEnabled, pending, regOrder, gate, returned,
                   prevRet, resetSince>>

(***************************************************************************)
(* LoggerRepository: getConfig, updateConfig                               *)
(***************************************************************************)
\* getConfig returns { ...this.config }: a new object with the properties of
\* this.config; a property whose value is an object holds the same object as
\* this.config's property does (same), of the properties modelled that is the
\* sanitization object
GetConfig(i) ==
    /\ i \in 1..created
    /\ last' = [NoObs EXCEPT
                   !.op = "getConfig", !.inst = i,
                   !.held = [props |-> config[i],
                             same  |-> IF config[i].sanitization.present
                                       THEN {"sanitization"} ELSE {}],
                   !.cfgBefore = config[i]]
    /\ UNCHANGED loggerVars
    /\ UNCHANGED <<instance, created, adapters, enabled, config, defaultSanitizer,
                   registry, phoneLastIndex, adEnabled, pending, regOrder, gate,
                   returned, prevRet, resetSince>>

\* the caller's statement  held.sanitization = obj  on the object getConfig
\* returned: the property of the copy is replaced, this.config keeps its own
AssignSanitization(obj) ==
    /\ last.op \in {"getConfig", "assign"}
    /\ last' = [last EXCEPT !.op = "assign",
                            !.held = [props |-> [@.props EXCEPT !.sanitization = obj],
                                      same  |-> @.same \ {"sanitization"}],
                            !.cfgBefore = config[last.inst]]
    /\ UNCHANGED loggerVars
    /\ UNCHANGED <<instance, created, adapters, enabled, config, defaultSanitizer,
                   registry, phoneLastIndex, adEnabled, pending, regOrder, gate,
                   returned, prevRet, resetSince>>

\* the caller's statement  held.sanitization.enabled = v : the assignment is
\* to the object held.sanitization, which is this.config's own sanitization
\* object as long as the copy's property was not replaced
AssignSanitizationEnabled(v) ==
    /\ last.op \in {"getConfig", "assign"}
    /\ last.held.props.sanitization.present
    /\ config' = IF "sanitization" \in last.held.same
                 THEN [config EXCEPT ![last.inst].sanitization.enabled = v]
                 ELSE config
    /\ last' = [last EXCEPT !.op = "assign",
                            !.held.props.sanitization.enabled = v,
                            !.cfgBefore = config[last.inst]]
    /\ UNCHANGED loggerVars
    /\ UNCHANGED <<instance, created, adapters, enabled, defaultSanitizer,
                   registry, phoneLastIndex, adEnabled, pending, regOrder, gate,
                   returned, prevRet, resetSince>>

\* { ...this.config, ...config }: every property the partial has replaces
\* the live one, the sanitization object as a whole
MergeConfig(c, partial) ==
    [sanitization |-> IF "sanitization" \in partial.has
                      THEN partial.sanitization ELSE c.sanitization,
     formatter    |-> IF "formatter" \in partial.has
                      THEN partial.formatter ELSE c.formatter]

\* updateConfig: an async function without an await, it runs to its end in
\* the call; the warning about adapters changes no state
UpdateConfig(i, partial) ==
    /\ i \in 1..created
    /\ config' = [config EXCEPT ![i] = MergeConfig(@, partial)]
    /\ defaultSanitizer' =
           IF /\ "sanitization" \in partial.has
              /\ partial.sanitization.present
              /\ partial.sanitization.defaultSanitizer # NoSanitizer
           THEN [defaultSanitizer EXCEPT ![i] = partial.sanitization.defaultSanitizer]
           ELSE defaultSanitizer
    /\ last' = [NoObs EXCEPT !.op = "updateConfig", !.inst = i,
                             !.settled = "resolved", !.partial = partial,
                             !.cfgBefore = config[i]]
    /\ UNCHANGED loggerVars
    /\ UNCHANGED <<instance, created, adapters, enabled, registry, phoneLastIndex,
                   adEnabled, pending, regOrder, gate, returned, prevRet,
                   resetSince>>

(***************************************************************************)
(* The repository's life cycle: instances, adapters, the gate, log calls   *)
(***************************************************************************)
Init ==
    /\ instance = 0
    /\ created = 0
    /\ adapters = [i \in Insts |-> <<>>]
    /\ enabled = [i \in Insts |-> FALSE]
    /\ config = [i \in Insts |-> NoConfig]
    /\ defaultSanitizer = [i \in Insts |-> "Default"]
    /\ registry = << >>
    /\ phoneLastIndex = 0
    /\ adEnabled = [a \in AdapterObjs |-> FALSE]
    /\ pending = {}
    /\ last = NoObs
    /\ regOrder = [i \in Insts |-> <<>>]
    /\ gate = [i \in Insts |-> "fresh"]
    /\ returned = {}
    /\ prevRet = 0
    /\ resetSince = FALSE
    /\ repository = 0
    /\ initialized = FALSE
    /\ loggerHist = NoLoggerHist

LevelInfo == <<"i","n","f","o">>

LevelError == <<"e","r","r","o","r">>

MessageHello == <<"h","i">>

KeyPassword == <<"p","a","s","s","w","o","r","d">>

\* { password: 'pw' }
DataSecret == <<"obj", << <<KeyPassword, StrVal(<<"p","w">>)>> >> >>

\* the log options of the life-cycle runs: none, data under the configured
\* sanitizer, data with a per-call sanitizer that throws
LifeOptions ==
    { NoOptions,
      Options(<<>>, DataSecret, Undefined, Undefined, NoSanitizer, FALSE),
      Options(<<>>, DataSecret, Undefined, Undefined, "Bad", FALSE) }

LifeConfigs == { NoConfig, Config(TRUE, NoSanitizer, "none") }

\* what an adapter's destroy() may do
DestroyBehaviours == {"resolve", "reject", "throw"}

\* One repository, obtained once from getInstance; the application awaits
\* each asynchronous call before it starts the next, while log, enable and
\* disable run at any time.
Next ==
    \/ \E cfg \in LifeConfigs : GetInstance(cfg)
    \/ \E i \in Insts, name \in Names, a \in AdapterObjs,
          cfg \in {"none", "on", "off"}, initOk \in BOOLEAN :
           pending = {} /\ RegisterStart(i, name, a, cfg, initOk)
    \/ \E p \in pending : RegisterFinish(p)
    \/ \E i \in Insts, name \in Names, outcome \in DestroyBehaviours :
           pending = {} /\ UnregisterStart(i, name, outcome)
    \/ \E p \in pending : UnregisterFinish(p)
    \/ \E i \in Insts : \E outcomes \in DestroyOutcomes(i) :
           pending = {} /\ Destroy(i, outcomes)
    \/ \E p \in pending : DestroyFinish(p)
    \/ \E i \in Insts : Enable(i)
    \/ \E i \in Insts : Disable(i)
    \/ \E i \in Insts, options \in LifeOptions, throwers \in SUBSET AdapterObjs :
           Log(i, LevelInfo, MessageHello, options, throwers)

Spec == Init /\ [][Next]_vars

(***************************************************************************)
(* The singleton: getInstance and resetInstance, with enough of the        *)
(* repository's operations to tell a used instance from a fresh one        *)
(***************************************************************************)
NextSingleton ==
    \/ \E cfg \in LifeConfigs : GetInstance(cfg)
    \/ \E outcomes \in UNION { [1..n -> DestroyBehaviours] : n \in 0..1 } :
           ResetInstance(outcomes)
    \/ \E i \in Insts : RegisterStart(i, "n1", "A", "on", TRUE)
    \/ \E p \in pending : RegisterFinish(p)
    \/ \E p \in pending : DestroyFinish(p)
    \/ \E i \in Insts : Enable(i)
    \/ \E i \in Insts, throwers \in SUBSET {"A"} :
           Log(i, LevelInfo, MessageHello, NoOptions, throwers)

SpecSingleton == Init /\ [][NextSingleton]_vars

(***************************************************************************)
(* The sanitization pipeline of log: one repository under each kind of     *)
(* configuration, the sanitizer registry, and log calls with every         *)
(* combination of tag, data, metadata, error, per-call sanitizer and       *)
(* skipSanitization                                                        *)
(***************************************************************************)
TagAuth == <<"A","u","t","h">>

TagBracketAuth == <<"[","A","u","t","h","]">>

\* { requestId: 'r1' }
MetaRequest ==
    <<"obj", << << <<"r","e","q","u","e","s","t","I","d">>, StrVal(<<"r","1">>) >> >> >>

\* new Error('timeout')
ErrTimeout == <<"err", <<"t","i","m","e","o","u","t">>, <<>> >>

PipeConfigs ==
    { NoConfig,
      Config(FALSE, NoSanitizer, "none"),
      Config(TRUE, NoSanitizer, "json"),
      Config(TRUE, "S3", "json"),
      Config(FALSE, "S3", "none") }

\* the data, metadata and error of a log call: none, data only, data and
\* metadata, all three
PipePayloads ==
    { <<Undefined, Undefined, Undefined>>,
      <<DataSecret, Undefined, Undefined>>,
      <<DataSecret, MetaRequest, Undefined>>,
      <<DataSecret, MetaRequest, ErrTimeout>> }

PipeOptions ==
    { NoOptions }
    \cup { Options(tag, pl[1], pl[2], pl[3], sanitizer, FALSE) :
             tag \in {<<>>, TagAuth, TagBracketAuth},
             pl \in PipePayloads,
             sanitizer \in {NoSanitizer, "S1", "Bad"} }
    \cup { Options(tag, DataSecret, MetaRequest, ErrTimeout, sanitizer, TRUE) :
             tag \in {<<>>, TagAuth, TagBracketAuth},
             sanitizer \in {NoSanitizer, "S1", "Bad"} }

NextPipeline ==
    \/ \E cfg \in PipeConfigs : GetInstance(cfg)
    \/ \E i \in Insts : pending = {} /\ RegisterStart(i, "n1", "A", "on", TRUE)
    \/ \E p \in pending : RegisterFinish(p)
    \/ \E i \in Insts : Enable(i)
    \/ \E tag \in {TagAuth, TagBracketAuth} : RegisterSanitizer(tag, "S2")
    \/ \E tag \in {TagAuth, TagBracketAuth} : UnregisterSanitizer(tag)
    \/ ClearSanitizers
    \/ \E i \in Insts, level \in {LevelInfo, LevelError}, options \in PipeOptions :
           Log(i, level, MessageHello, options, {})

SpecPipeline == Init /\ [][NextPipeline]_vars

(***************************************************************************)
(* DefaultSanitizer.sanitize called directly, on nested objects and arrays *)
(***************************************************************************)
\* new DefaultSanitizer().sanitize(x), for the argument x the run began with
SanitizeCall ==
    /\ last.op = "argument"
    /\ \E r \in {Sanitize(last.arg, phoneLastIndex)} :
          /\ phoneLastIndex' = r.li
          /\ last' = [last EXCEPT !.op = "sanitize", !.out = r.out]
    /\ UNCHANGED loggerVars
    /\ UNCHANGED <<instance, created, adapters, enabled, config, defaultSanitizer,
                   registry, adEnabled, pending, regOrder, gate, returned, prevRet,
                   resetSince>>

KeyUserPassword == <<"u","s","e","r","P","a","s","s","w","o","r","d">>

KeyName == <<"n","a","m","e">>

KeyEmail == <<"e","m","a","i","l">>

KeyToken == <<"t","o","k","e","n">>

\* the value the inputs keep under password keys, and only there
SecretChars == <<"h","u","n","t","e","r","2">>

PlainChars == <<"o","k">>

PasswordKeys == {KeyPassword, KeyUserPassword}

OtherKeys == {KeyName, KeyEmail, KeyToken}

\* objects of one entry: the secret under a password key, a plain value
\* under another key
FlatObjects ==
    { <<"obj", << <<k, StrVal(SecretChars)>> >> >> : k \in PasswordKeys }
    \cup { <<"obj", << <<k, StrVal(PlainChars)>> >> >> : k \in OtherKeys }

\* objects of two entries, a password key among them
PairObjects ==
    { <<"obj", << <<k1, StrVal(PlainChars)>>, <<k2, StrVal(SecretChars)>> >> >> :
        k1 \in OtherKeys, k2 \in PasswordKeys }

\* one more level: an object or an array of objects under a key, an array
Nest(values) ==
    { <<"obj", << <<k, v>> >> >> : k \in PasswordKeys \cup OtherKeys, v \in values }
    \cup { <<"obj", << <<k, <<"arr", <<v>> >> >> >> >> : k \in OtherKeys, v \in values }
    \cup { <<"arr", <<v, StrVal(PlainChars)>> >> : v \in values }

SanitizerInputs ==
    FlatObjects \cup PairObjects \cup Nest(FlatObjects \cup PairObjects)
        \cup Nest(Nest(FlatObjects))

\* no repository; the argument of the call is chosen
InitSanitizer ==
    /\ instance = 0
    /\ created = 0
    /\ adapters = [i \in Insts |-> <<>>]
    /\ enabled = [i \in Insts |-> FALSE]
    /\ config = [i \in Insts |-> NoConfig]
    /\ defaultSanitizer = [i \in Insts |-> "Default"]
    /\ registry = << >>
    /\ phoneLastIndex = 0
    /\ adEnabled = [a \in AdapterObjs |-> FALSE]
    /\ pending = {}
    /\ last \in { [NoObs EXCEPT !.op = "argument", !.arg = x] : x \in SanitizerInputs }
    /\ regOrder = [i \in Insts |-> <<>>]
    /\ gate = [i \in Insts |-> "fresh"]
    /\ returned = {}
    /\ prevRet = 0
    /\ resetSince = FALSE
    /\ repository = 0
    /\ initialized = FALSE
    /\ loggerHist = NoLoggerHist

NextSanitizer == SanitizeCall

SpecSanitizer == InitSanitizer /\ [][NextSanitizer]_vars

(***************************************************************************)
(* LoggerSingleton: the exported logger.  It is constructed when            *)
(* logger-instance.ts is loaded and keeps the repository it got then.      *)
(***************************************************************************)
\* a log that goes to the repository whether or not the logger is initialized
LoggerForwardsAlways(init) == TRUE

\* LoggerSingleton.log: the call goes to repository.log once initialized
LoggerForwards(init) == init

\* logger.registerAdapter(name, a, config) from its call to the await inside
\* repository.registerAdapter; cfg is the config's enabled as "on"/"off"
LoggerRegisterStart(name, a, cfg, initOk) ==
    /\ repository \in 1..created
    /\ Cardinality(pending) < MaxPending
    /\ adEnabled' = IF initOk THEN [adEnabled EXCEPT ![a] = (cfg = "on")] ELSE adEnabled
    /\ pending' = pending
                    \cup {Pending("logger.registerAdapter", repository, name, a, initOk)}
    /\ last' = [NoObs EXCEPT !.op = "logger.registerAdapter", !.inst = repository,
                             !.name = name, !.adapter = a, !.initOk = initOk,
                             !.settled = "pending", !.before = adapters[repository]]
    /\ UNCHANGED loggerVars
    /\ UNCHANGED <<instance, created, adapters, enabled, config, defaultSanitizer,
                   registry, phoneLastIndex, regOrder, gate, returned, prevRet,
                   resetSince>>

\* logger.registerAdapter after the await: the rest of
\* repository.registerAdapter, then repository.enable() and initialized = true
\* when the logger was not initialized
LoggerRegisterFinish(p) ==
    /\ p \in pending
    /\ p.op = "logger.registerAdapter"
    /\ adapters' = [adapters EXCEPT
           ![p.inst] = RegisterResult(@, p.name, p.adapter, p.ok, adEnabled[p.adapter])]
    /\ regOrder' = [regOrder EXCEPT ![p.inst] = UpdateOrder(@, adapters'[p.inst])]
    /\ enabled' = [enabled EXCEPT ![p.inst] = IF initialized THEN @ ELSE TRUE]
    /\ gate' = [gate EXCEPT ![p.inst] = IF initialized THEN @ ELSE "enabled"]
    /\ initialized' = TRUE
    /\ loggerHist' =
           [regs     |-> RegisterResult(loggerHist.regs, p.name, p.adapter, p.ok,
                                        adEnabled[p.adapter]),
            resolved |-> TRUE]
    /\ pending' = pending \ {p}
    /\ last' = [NoObs EXCEPT !.op = "logger.registerAdapter", !.inst = p.inst,
                             !.name = p.name, !.adapter = p.adapter, !.initOk = p.ok,
                             !.isEnabled = p.ok /\ adEnabled[p.adapter],
                             !.settled = "resolved", !.before = adapters[p.inst]]
    /\ UNCHANGED <<instance, created, config, defaultSanitizer, registry,
                   phoneLastIndex, adEnabled, returned, prevRet, resetSince,
                   repository>>

\* logger.log(level, message, context), which debug, info and warn call with
\* their own level: the console while not initialized, repository.log after
LoggerLog(level, message, options, throwers) ==
    /\ repository \in 1..created
    /\ throwers \subseteq Range(MapValues(adapters[repository]))
    /\ IF ~LoggerForwards(initialized) \/ ~LogGate(repository)
       THEN /\ throwers = {}
            /\ last' = [NoObs EXCEPT
                           !.op = "logger.log", !.inst = repository, !.level = level,
                           !.message = message, !.options = options,
                           !.optionsAfter = options,
                           !.forwarded = IF LoggerForwards(initialized)
                                         THEN <<level, message, options>> ELSE <<>>]
            /\ UNCHANGED phoneLastIndex
       ELSE \E sc \in {SanitizeContext(repository, options, phoneLastIndex)} :
            \E fo \in {FanOut(adapters[repository], level, message, sc.ctx, throwers)} :
                /\ sc.threw => throwers = {}
                /\ phoneLastIndex' = sc.li
                /\ last' = [NoObs EXCEPT
                               !.op = "logger.log", !.inst = repository,
                               !.level = level, !.message = message,
                               !.options = options,
                               !.optionsAfter = sc.caller,
                               !.forwarded = <<level, message, options>>,
                               !.sanCalls = sc.calls,
                               !.calls = IF sc.threw THEN <<>> ELSE fo.calls,
                               !.settled = IF sc.threw \/ fo.threw THEN "threw"
                                           ELSE "returned"]
    /\ UNCHANGED loggerVars
    /\ UNCHANGED <<instance, created, adapters, enabled, config, defaultSanitizer,
                   registry, adEnabled, pending, regOrder, gate, returned, prevRet,
                   resetSince>>

\* logger.error(message, error, context): log('error', message, {...context, error})
LoggerError(message, error, options, throwers) ==
    LoggerLog(LevelError, message,
              [options EXCEPT !.present = TRUE, !.error = error], throwers)

\* logger-instance.ts is loaded: the logger holds the repository that
\* LoggerRepository.getInstance() made for it, and is not initialized
InitLogger ==
    /\ instance = 1
    /\ created = 1
    /\ adapters = [i \in Insts |-> <<>>]
    /\ enabled = [i \in Insts |-> FALSE]
    /\ config = [i \in Insts |-> NoConfig]
    /\ defaultSanitizer = [i \in Insts |-> ConstructDefaultSanitizer(NoConfig)]
    /\ registry = << >>
    /\ phoneLastIndex = 0
    /\ adEnabled = [a \in AdapterObjs |-> FALSE]
    /\ pending = {}
    /\ last = NoObs
    /\ regOrder = [i \in Insts |-> <<>>]
    /\ gate = [i \in Insts |-> "fresh"]
    /\ returned = {1}
    /\ prevRet = 1
    /\ resetSince = FALSE
    /\ repository = 1
    /\ initialized = FALSE
    /\ loggerHist = NoLoggerHist

\* The tests' use of the logger: logger.registerAdapter awaited, logger.info
\* and logger.error, and LoggerRepository.resetInstance between tests; a
\* call is made when the asynchronous work before it has ended.
NextLogger ==
    \/ \E name \in Names, a \in AdapterObjs, cfg \in {"on", "off"}, initOk \in BOOLEAN :
           pending = {} /\ LoggerRegisterStart(name, a, cfg, initOk)
    \/ \E p \in pending : LoggerRegisterFinish(p)
    \/ \E options \in LifeOptions, throwers \in SUBSET AdapterObjs :
           LoggerLog(LevelInfo, MessageHello, options, throwers)
    \/ \E throwers \in SUBSET AdapterObjs :
           LoggerError(MessageHello, ErrTimeout, NoOptions, throwers)
    \/ \E outcomes \in UNION { [1..n -> DestroyBehaviours] : n \in 0..Cardinality(Names) } :
           pending = {} /\ ResetInstance(outcomes)
    \/ \E p \in pending : DestroyFinish(p)

SpecLogger == InitLogger /\ [][NextLogger]_vars

(***************************************************************************)
(* The sanitizer registry on its own: register, unregister and clear with  *)
(* tags that differ in letter case only, and the empty string              *)
(***************************************************************************)
TagEmpty == << >>

\* '', 'Auth', 'auth', 'AUTH', 'Pay'
RegistryTags ==
    { TagEmpty, TagAuth, <<"a","u","t","h">>, <<"A","U","T","H">>, <<"P","a","y">> }

NextRegistry ==
    \/ \E tag \in RegistryTags, sanitizer \in {"S1", "S2", "Default"} :
           RegisterSanitizer(tag, sanitizer)
    \/ \E tag \in RegistryTags : UnregisterSanitizer(tag)
    \/ ClearSanitizers

SpecRegistry == Init /\ [][NextRegistry]_vars

(***************************************************************************)
(* DefaultSanitizer.sanitize called again and again: the patterns of       *)
(* SENSITIVE_PATTERNS belong to the module, every DefaultSanitizer and     *)
(* every call shares them                                                  *)
(***************************************************************************)
\* sanitizer.sanitize(x) on any DefaultSanitizer
SanitizeNext(x) ==
    /\ \E r \in {Sanitize(x, phoneLastIndex)} :
          /\ phoneLastIndex' = r.li
          /\ last' = [NoObs EXCEPT !.op = "sanitize", !.arg = x, !.out = r.out]
    /\ UNCHANGED loggerVars
    /\ UNCHANGED <<instance, created, adapters, enabled, config, defaultSanitizer,
                   registry, adEnabled, pending, regOrder, gate, returned, prevRet,
                   resetSince>>

KeyPhone == <<"p","h","o","n","e">>

KeyPhoneNumber == <<"p","h","o","n","e","N","u","m","b","e","r">>

\* '555-123-4567', '5551234567', 'tel 555.123.4567', 'bob@site.io', 'n/a'
HistoryValues ==
    { <<"5","5","5","-","1","2","3","-","4","5","6","7">>,
      <<"5","5","5","1","2","3","4","5","6","7">>,
      <<"t","e","l"," ","5","5","5",".","1","2","3",".","4","5","6","7">>,
      <<"b","o","b","@","s","i","t","e",".","i","o">>,
      <<"n","/","a">> }

\* { phone: v }, { phoneNumber: v }, { email: v }, { name: v }
HistoryObjects ==
    { <<"obj", << <<k, StrVal(v)>> >> >> :
          k \in {KeyPhone, KeyPhoneNumber, KeyEmail, KeyName}, v \in HistoryValues }

\* the objects, and the arrays [{ phone: v }, { phone: w }] and
\* [{ phoneNumber: v }, { phone: w }]
HistoryInputs ==
    HistoryObjects
    \cup { <<"arr", << <<"obj", << <<k, StrVal(v)>> >> >>,
                       <<"obj", << <<KeyPhone, StrVal(w)>> >> >> >> >> :
             k \in {KeyPhone, KeyPhoneNumber}, v \in HistoryValues, w \in HistoryValues }

NextHistory == \E x \in HistoryInputs : SanitizeNext(x)

SpecHistory == Init /\ [][NextHistory]_vars

(***************************************************************************)
(* The end-to-end scenario: a capturing adapter, enable(), and one log     *)
(* call with a tag, an Error and a card number                             *)
(***************************************************************************)
MessageFailed == <<"O","p","e","r","a","t","i","o","n"," ","f","a","i","l","e","d">>

KeyCardNumber == <<"c","a","r","d","N","u","m","b","e","r">>

\* { tag: '[Payment]', error: new Error('timeout'),
\*   data: { cardNumber: '4111111111111111' } }
ScenarioOptions ==
    Options(<<"[","P","a","y","m","e","n","t","]">>,
            <<"obj", << <<KeyCardNumber, StrVal(<<"4","1","1","1","1","1","1","1","1","1","1","1","1","1","1","1">>)>> >> >>,
            Undefined, ErrTimeout, NoSanitizer, FALSE)

NextScenario ==
    \/ \E cfg \in LifeConfigs : GetInstance(cfg)
    \/ \E i \in Insts, name \in Names, a \in AdapterObjs,
          cfg \in {"on", "off"}, initOk \in BOOLEAN :
           pending = {} /\ RegisterStart(i, name, a, cfg, initOk)
    \/ \E p \in pending : RegisterFinish(p)
    \/ \E i \in Insts : Enable(i)
    \/ \E i \in Insts : Disable(i)
    \/ \E i \in Insts, throwers \in SUBSET AdapterObjs :
           Log(i, LevelError, MessageFailed, ScenarioOptions, throwers)

SpecScenario == Init /\ [][NextScenario]_vars

(***************************************************************************)
(* Overlapping asynchronous calls: registerAdapter, unregisterAdapter,     *)
(* destroy and resetInstance started while others are at their await.  No  *)
(* registerAdapter starts on a repository once its destroy() was called,   *)
(* and no destroy() of an adapter throws.                                  *)
(***************************************************************************)
NextRace ==
    \/ GetInstance(NoConfig)
    \/ \E i \in Insts, a \in AdapterObjs :
           gate[i] # "destroyed" /\ RegisterStart(i, "n1", a, "on", TRUE)
    \/ \E p \in pending : RegisterFinish(p)
    \/ \E i \in Insts, outcome \in {"resolve", "reject"} :
           UnregisterStart(i, "n1", outcome)
    \/ \E p \in pending : UnregisterFinish(p)
    \/ \E i \in Insts : \E outcomes \in [DOMAIN adapters[i] -> {"resolve", "reject"}] :
           Destroy(i, outcomes)
    \/ \E outcomes \in UNION { [1..n -> {"resolve", "reject"}] : n \in 0..1 } :
           ResetInstance(outcomes)
    \/ \E p \in pending : DestroyFinish(p)

SpecRace == Init /\ [][NextRace]_vars

(***************************************************************************)
(* The sanitizer registry across the singleton's lives: sanitizers are     *)
(* registered through the first repository, log calls are made on it and   *)
(* on the repository getInstance returns after a reset; destroy is called  *)
(* on the current instance, one asynchronous call at a time                *)
(***************************************************************************)
NextOutlive ==
    \/ GetInstance(Config(TRUE, NoSanitizer, "none"))
    \/ \E outcomes \in UNION { [1..n -> {"resolve"}] : n \in 0..1 } :
           pending = {} /\ ResetInstance(outcomes)
    \/ \E i \in Insts : \E outcomes \in [DOMAIN adapters[i] -> {"resolve"}] :
           pending = {} /\ instance = i /\ Destroy(i, outcomes)
    \/ \E p \in pending : DestroyFinish(p)
    \/ \E i \in Insts : pending = {} /\ RegisterStart(i, "n1", "A", "on", TRUE)
    \/ \E p \in pending : RegisterFinish(p)
    \/ \E i \in Insts : Enable(i)
    \/ created = 1 /\ RegisterSanitizer(TagAuth, "S2")
    \/ UnregisterSanitizer(TagAuth)
    \/ ClearSanitizers
    \/ \E i \in Insts, tag \in {<<>>, TagAuth} :
           Log(i, LevelInfo, MessageHello,
               Options(tag, DataSecret, Undefined, Undefined, NoSanitizer, FALSE), {})

SpecOutlive == Init /\ [][NextOutlive]_vars

(***************************************************************************)
(* The configuration: getConfig and what its caller does with the object   *)
(* returned, updateConfig, and log calls that show which sanitizer is live *)
(***************************************************************************)
NextConfig ==
    \/ \E cfg \in PipeConfigs : GetInstance(cfg)
    \/ \E i \in Insts : pending = {} /\ RegisterStart(i, "n1", "A", "on", TRUE)
    \/ \E p \in pending : RegisterFinish(p)
    \/ \E i \in Insts : Enable(i)
    \/ \E i \in Insts : GetConfig(i)
    \/ \E enabledValue \in BOOLEAN :
           AssignSanitization(Config(enabledValue, NoSanitizer, "none").sanitization)
    \/ \E enabledValue \in BOOLEAN : AssignSanitizationEnabled(enabledValue)
    \* updateConfig({}), ({ sanitization: { defaultSanitizer: S3 } }),
    \* ({ sanitization: { enabled: true, defaultSanitizer: S3 } }),
    \* ({ sanitization: { enabled: false } }), ({ formatters: { default: json } })
    \/ \E i \in Insts :
       \E partial \in
           { [has |-> {}, sanitization |-> NoConfig.sanitization, formatter |-> "none"],
             [has |-> {"formatter"}, sanitization |-> NoConfig.sanitization,
              formatter |-> "json"] }
           \cup { [has |-> {"sanitization"}, sanitization |-> c.sanitization,
                   formatter |-> "none"] :
                    c \in { Config(FALSE, "S3", "none"), Config(TRUE, "S3", "none"),
                            Config(FALSE, NoSanitizer, "none") } } :
           UpdateConfig(i, partial)
    \/ \E i \in Insts, options \in LifeOptions :
           Log(i, LevelInfo, MessageHello, options, {})

SpecConfig == Init /\ [][NextConfig]_vars

(***************************************************************************)
(* Properties of log: fan-out, fault isolation, the gate                   *)
(***************************************************************************)
\* the last call was a log on a repository whose gate was open; log leaves
\* enabled and the adapter Map as they were when it was called
LoggedWhileEnabled == last.op = "log" /\ enabled[last.inst]

\* C1: a log call on an enabled repository invokes adapter.log exactly once
\* on each adapter of the Map, in the order in which their names were
\* registered, each with the same level, message and sanitized context.
C1_FanOutCompleteInOrder ==
    LoggedWhileEnabled =>
        /\ Len(last.calls) = Len(adapters[last.inst])
        /\ \A k \in DOMAIN last.calls :
              /\ last.calls[k].name = regOrder[last.inst][k]
              /\ last.calls[k].adapter = MapGet(adapters[last.inst], regOrder[last.inst][k])
              /\ last.calls[k].level = last.level
              /\ last.calls[k].message = last.message
              /\ last.calls[k].ctx = last.calls[1].ctx

\* the fan-out as it is whenever sanitizeContext returned: the part of C1 the
\* code keeps
FanOutWhenSanitized ==
    (LoggedWhileEnabled /\ last.settled = "returned") => C1_FanOutCompleteInOrder

\* C2: when an adapter's log throws during a log call, every adapter
\* registered after it still receives the call, and log returns normally.
C2_FaultIsolation ==
    (last.op = "log" /\ \E k \in DOMAIN last.calls : last.calls[k].threw) =>
        /\ last.settled = "returned"
        /\ \A k \in DOMAIN last.calls : last.calls[k].threw =>
              \A j \in DOMAIN adapters[last.inst] : j > k =>
                  /\ j \in DOMAIN last.calls
                  /\ last.calls[j].adapter = adapters[last.inst][j].adapter
                  /\ last.calls[j].name = adapters[last.inst][j].name

\* a log call whose first adapter threw and whose second adapter was called
C2_Witness ==
    /\ last.op = "log"
    /\ Len(last.calls) = 2
    /\ last.calls[1].threw
    /\ ~last.calls[2].threw
    /\ last.calls[1].adapter # last.calls[2].adapter
    /\ last.settled = "returned"

\* C3: log returns normally whatever the options, the adapters and the
\* selected sanitizer do, a sanitizer whose sanitize throws included.
C3_LogNeverThrows == last.op = "log" => last.settled = "returned"

\* C4: a log call on a repository that was never enabled, or whose last
\* enable/disable/destroy call was a disable or a destroy, invokes no
\* adapter's log and no sanitizer; calls are delivered only after an enable.
C4_DisabledGate ==
    (last.op = "log" /\ gate[last.inst] # "enabled") =>
        /\ last.calls = <<>>
        /\ last.sanCalls = <<>>
        /\ last.settled = "returned"

\* a log call with data to sanitize after destroy() was called, while the
\* adapters are still in the Map
C4_Witness ==
    /\ last.op = "log"
    /\ gate[last.inst] = "destroyed"
    /\ adapters[last.inst] # <<>>
    /\ last.options.present
    /\ Truthy(last.options.data)
    /\ last.calls = <<>>

(***************************************************************************)
(* Properties of the singleton and of registerAdapter                      *)
(***************************************************************************)
\* C8: two getInstance calls with no resetInstance between them return the
\* same instance; the first getInstance after a resetInstance returns an
\* instance never returned before, with an empty adapter Map and disabled.
C8_Singleton ==
    [][ last'.op = "getInstance" =>
          /\ (prevRet # 0 /\ ~resetSince) => last'.ret = prevRet
          /\ resetSince =>
                /\ last'.ret \notin returned
                /\ adapters'[last'.ret] = <<>>
                /\ ~enabled'[last'.ret] ]_vars

\* getInstance returned a second instance while the first, reset with an
\* adapter registered, has not yet cleared its Map
C8_Witness ==
    /\ last.op = "getInstance"
    /\ last.ret = 2
    /\ gate[1] = "destroyed"
    /\ adapters[1] # <<>>
    /\ adapters[2] = <<>>

\* the last call was a registerAdapter whose promise has resolved
RegisterResolved == last.op = "registerAdapter" /\ last.settled = "resolved"

DeliveredBy(sanitizer) ==
    /\ \A c \in Range(last.sanCalls) : c[1] = sanitizer
    /\ \A k \in DOMAIN last.calls : \A field \in {"data", "metadata", "error"} :
          SanitizedField(last.options, field) =>
              last.calls[k].ctx[field] = <<"san", sanitizer, last.options[field]>>

\* C5: a log call without skipSanitization that carries a per-call sanitizer
\* delivers that sanitizer's outputs; without one, and with a sanitizer
\* registered for its tag, it delivers the registered sanitizer's outputs,
\* whatever the config's sanitization.enabled; the repository's default
\* sanitizer is applied in neither case.
C5_SanitizerPriority ==
    (LoggedWhileEnabled /\ last.options.present /\ ~last.options.skipSanitization) =>
        /\ last.options.sanitizer # NoSanitizer => DeliveredBy(last.options.sanitizer)
        /\ (/\ last.options.sanitizer = NoSanitizer
            /\ RegistryGet(registry, last.options.tag) # NoSanitizer) =>
               DeliveredBy(RegistryGet(registry, last.options.tag))
        /\ (\/ last.options.sanitizer # NoSanitizer
            \/ RegistryGet(registry, last.options.tag) # NoSanitizer) =>
               \A c \in Range(last.sanCalls) : c[1] # defaultSanitizer[last.inst]

\* a log call with a registered tag and no per-call sanitizer, delivered with
\* the registered sanitizer's data, metadata and error on a repository whose
\* config does not enable sanitization and names S3 as default sanitizer
C5_Witness ==
    /\ LoggedWhileEnabled
    /\ last.options.sanitizer = NoSanitizer
    /\ ~last.options.skipSanitization
    /\ RegistryGet(registry, last.options.tag) = "S2"
    /\ ~config[last.inst].sanitization.enabled
    /\ defaultSanitizer[last.inst] = "S3"
    /\ Len(last.calls) = 1
    /\ Len(last.sanCalls) = 3
    /\ last.calls[1].ctx.error = <<"san", "S2", ErrTimeout>>

\* C6: with formatters.default set and sanitization enabled in the config,
\* every context delivered to an adapter has metadata._formattedOutput with
\* json.level the level and json.message the message of the call, and keeps
\* every metadata key of the caller.
C6_FormatterAttachment ==
    (/\ LoggedWhileEnabled
     /\ config[last.inst].formatter # "none"
     /\ config[last.inst].sanitization.present
     /\ config[last.inst].sanitization.enabled) =>
        \A k \in DOMAIN last.calls :
            \E json \in {GetProp(GetProp(last.calls[k].ctx.metadata, KeyFormattedOutput),
                                 KeyJson)} :
                /\ GetProp(json, KeyLevel) = StrVal(last.level)
                /\ GetProp(json, KeyMessage) = StrVal(last.message)
                /\ \A e \in Range(Entries(last.options.metadata)) :
                       GetProp(last.calls[k].ctx.metadata, e[1]) # Undefined

(***************************************************************************)
(* Properties of DefaultSanitizer.sanitize                                 *)
(***************************************************************************)
\* a key whose lower-cased name contains "password"
IsPasswordKey(key) == Includes(ToLowerCase(key), KeyPassword)

\* a key whose value sanitize replaces as a whole: by '[REDACTED]' or by a
\* mask of String(value)
IsReplacedKey(key) ==
    ShouldRemoveField(ToLowerCase(key)) \/ ShouldMaskField(ToLowerCase(key))

\* some string in the value v contains the text
RECURSIVE Occurs(_, _)
Occurs(v, text) ==
    CASE Kind(v) \in {"str", "num"} -> Includes(v[2], text)
      [] Kind(v) = "arr" -> \E i \in DOMAIN v[2] : Occurs(v[2][i], text)
      [] Kind(v) \in {"obj", "err"} ->
           \E i \in DOMAIN Entries(v) : Occurs(Entries(v)[i][2], text)
      [] OTHER -> FALSE

\* every password key of the value y, at any depth, has '[REDACTED]' as its
\* value
RECURSIVE PasswordKeysRedacted(_)
PasswordKeysRedacted(y) ==
    CASE Kind(y) = "arr" -> \A i \in DOMAIN y[2] : PasswordKeysRedacted(y[2][i])
      [] Kind(y) = "obj" ->
           \A i \in DOMAIN y[2] :
               /\ IsPasswordKey(y[2][i][1]) => y[2][i][2] = StrVal(REDACTED)
               /\ PasswordKeysRedacted(y[2][i][2])
      [] OTHER -> TRUE

\* the output y keeps the arrays and the keys of the input x, with
\* '[REDACTED]' under every password key; a key that sanitize replaces as a
\* whole has one string as its value, what was below it is gone
RECURSIVE RedactedInPlace(_, _)
RedactedInPlace(x, y) ==
    CASE Kind(x) = "arr" ->
           /\ Kind(y) = "arr"
           /\ Len(y[2]) = Len(x[2])
           /\ \A i \in DOMAIN x[2] : RedactedInPlace(x[2][i], y[2][i])
      [] Kind(x) = "obj" ->
           /\ Kind(y) = "obj"
           /\ MapKeysOf(y) = MapKeysOf(x)
           /\ \A i \in DOMAIN x[2] :
                 /\ IsPasswordKey(x[2][i][1]) => y[2][i][2] = StrVal(REDACTED)
                 /\ IF IsReplacedKey(x[2][i][1])
                    THEN Kind(y[2][i][2]) = "str"
                    ELSE RedactedInPlace(x[2][i][2], y[2][i][2])
      [] OTHER -> TRUE

\* C7: in sanitize's output every key whose lower-cased name contains
\* "password" has exactly '[REDACTED]' as its value, at any depth and inside
\* arrays of objects: the output keeps the input's keys in place, down to
\* the keys it replaces as a whole, and no value of a password key appears
\* anywhere in it.
C7_RedactionComplete ==
    last.op = "sanitize" =>
        /\ PasswordKeysRedacted(last.out)
        /\ RedactedInPlace(last.arg, last.out)
        /\ ~Occurs(last.out, SecretChars)

\* sanitize on an object whose password key sits two levels down, inside an
\* array of objects
C7_Witness ==
    /\ last.op = "sanitize"
    /\ Kind(last.arg) = "obj"
    /\ Occurs(last.arg, SecretChars)
    /\ \E k \in OtherKeys \ {KeyEmail, KeyToken} :
          /\ Kind(GetProp(last.arg, k)) = "arr"
          /\ Kind(GetProp(last.out, k)) = "arr"
          /\ \E pk \in {KeyUserPassword} :
                 GetProp(GetProp(last.out, k)[2][1], pk) = StrVal(REDACTED)

(***************************************************************************)
(* Properties of unregisterAdapter and destroy                             *)
(***************************************************************************)
\* the last call was unregisterAdapter and its promise has settled
UnregisterSettled ==
    last.op = "unregisterAdapter" /\ last.settled \in {"resolved", "rejected"}

\* C11: unregisterAdapter(name) on a registered name calls that adapter's
\* destroy() and, whatever destroy() does (resolve, reject, throw), the
\* promise resolves with the name absent from the Map; on a name that is not
\* registered it calls no destroy() and leaves the Map as it was.
C11_Unregistration ==
    UnregisterSettled =>
        /\ last.settled = "resolved"
        /\ IF MapHas(last.before, last.name)
           THEN /\ last.destroyed = <<MapGet(last.before, last.name)>>
                /\ ~MapHas(adapters[last.inst], last.name)
           ELSE /\ last.destroyed = <<>>
                /\ adapters[last.inst] = last.before

\* the last call was destroy and it has reached its await or settled
DestroyCalled == last.op = "destroy"

\* C12: destroy() leaves enabled false when the teardown starts, invokes
\* destroy() on every adapter of the Map, whatever the adapters' destroy()
\* do, and once it has settled it has resolved and the Map is empty.
C12_RepositoryDestroy ==
    DestroyCalled =>
        /\ last.settled \in {"pending", "rejected"} =>
               /\ ~enabled[last.inst]
               /\ last.destroyed = MapValues(last.before)
        /\ last.settled # "rejected"
        /\ last.settled = "resolved" => adapters[last.inst] = <<>>

(***************************************************************************)
(* Properties of the documented usage                                      *)
(***************************************************************************)
\* C13: on a repository from getInstance on which no enable, disable or
\* destroy was ever called, a log call that follows a resolved
\* registerAdapter(name, adapter, {enabled: true}) is delivered to every
\* adapter of the Map.
C13_DocumentedUsage ==
    (/\ last.op = "log"
     /\ gate[last.inst] = "fresh"
     /\ adapters[last.inst] # <<>>
     /\ last.settled = "returned") =>
        /\ Len(last.calls) = Len(adapters[last.inst])
        /\ \A k \in DOMAIN last.calls :
              last.calls[k].adapter = adapters[last.inst][k].adapter

(***************************************************************************)
(* Properties of the exported logger                                       *)
(***************************************************************************)
\* the adapters whose log the last call invoked and that are enabled
Received ==
    { a \in { last.calls[k].adapter : k \in DOMAIN last.calls } : adEnabled[a] }

\* the enabled adapters registered through the logger since the last
\* resetInstance
RegisteredSinceReset ==
    { a \in Range(MapValues(loggerHist.regs)) : adEnabled[a] }

\* C14: the adapters that receive a logger.info or logger.error call are
\* exactly the enabled adapters registered through logger.registerAdapter
\* since the most recent LoggerRepository.resetInstance().
C14_CleanStateAfterReset ==
    (last.op = "logger.log" /\ last.settled = "returned") =>
        Received = RegisteredSinceReset

\* C15, before: while no logger.registerAdapter call has resolved, a logger
\* call reaches neither repository.log nor an adapter nor a sanitizer.
NoForwardBeforeRegister ==
    (last.op = "logger.log" /\ ~loggerHist.resolved) =>
        /\ last.forwarded = <<>>
        /\ last.calls = <<>>
        /\ last.sanCalls = <<>>

\* C15, after: once a logger.registerAdapter call has resolved, a logger call
\* gives repository.log its own level, message and context.
ForwardAfterRegister ==
    (last.op = "logger.log" /\ loggerHist.resolved) =>
        last.forwarded = <<last.level, last.message, last.options>>

\* C15, the step in which the first logger.registerAdapter call resolves
\* leaves the logger's repository enabled.
FirstRegisterEnables ==
    (~loggerHist.resolved /\ loggerHist'.resolved) => enabled'[repository']

\* C15: logger.log falls back to the console until the first
\* logger.registerAdapter call has resolved; that call leaves the repository
\* enabled, and every later logger.log call is forwarded to repository.log
\* with the same level, message and context.
C15_LoggerAutoEnable ==
    /\ [](NoForwardBeforeRegister /\ ForwardAfterRegister)
    /\ [][FirstRegisterEnables]_vars

\* a logger call after the first registration that an adapter received
C15_Witness ==
    /\ last.op = "logger.log"
    /\ loggerHist.resolved
    /\ last.forwarded = <<last.level, last.message, last.options>>
    /\ last.options.present
    /\ last.calls # <<>>

(***************************************************************************)
(* Properties of the sanitizer registry                                    *)
(***************************************************************************)
\* two tags are equal ignoring letter case
SameTag(t, u) == ToLowerCase(t) = ToLowerCase(u)

\* what get(t) has to return after the step: the sanitizer just registered
\* under a tag equal to t ignoring case, undefined after an unregister of
\* such a tag or a clear, and what it returned before otherwise
GetAfterStep(t) ==
    IF last'.op = "registerSanitizer" /\ SameTag(last'.tag, t) THEN last'.sanitizer
    ELSE IF last'.op = "unregisterSanitizer" /\ SameTag(last'.tag, t) THEN NoSanitizer
    ELSE IF last'.op = "clearSanitizers" THEN NoSanitizer
    ELSE RegistryGet(registry, t)

\* the registry's contract for the tag t over one step
RegistryStep(t) ==
    /\ RegistryGet(registry', t) = GetAfterStep(t)
    /\ RegistryHas(registry', t) <=> (RegistryGet(registry', t) # NoSanitizer)

\* C16: after any sequence of register, unregister and clear, get(t) is the
\* sanitizer of the most recent register of a tag equal to t ignoring case,
\* undefined when an unregister of such a tag or a clear came later; has(t)
\* is true exactly when get(t) is defined; an unregister of an unregistered
\* tag changes nothing.  Stated step by step, for every tag t.
C16_RegistrySemantics ==
    [][ /\ \A t \in RegistryTags : RegistryStep(t)
        /\ (last'.op = "unregisterSanitizer" /\ ~RegistryHas(registry, last'.tag))
               => registry' = registry ]_vars

\* the same for the tags that are not the empty string
RegistryNonEmptyTags ==
    [][ \A t \in RegistryTags \ {TagEmpty} : RegistryStep(t) ]_vars

(***************************************************************************)
(* Properties of skipSanitization and of the caller's options              *)
(***************************************************************************)
\* C17: a log call with skipSanitization true invokes no sanitizer, whatever
\* per-call sanitizer, registered tag sanitizer or default sanitizer there
\* is, and every adapter receives the caller's options as they are.
C17_SkipSanitization ==
    (LoggedWhileEnabled /\ last.options.present /\ last.options.skipSanitization) =>
        /\ last.sanCalls = <<>>
        /\ last.settled = "returned"
        /\ Len(last.calls) = Len(adapters[last.inst])
        /\ \A k \in DOMAIN last.calls : last.calls[k].ctx = last.options

\* a delivered log call with skipSanitization, data { password: 'pw' } and a
\* per-call sanitizer on a repository whose config enables sanitization
C17_Witness ==
    /\ LoggedWhileEnabled
    /\ last.options.skipSanitization
    /\ last.options.sanitizer # NoSanitizer
    /\ config[last.inst].sanitization.enabled
    /\ Len(last.calls) = 1
    /\ last.calls[1].ctx.data = DataSecret

\* the last log call ran the DefaultSanitizer, and nothing else, on its options
DefaultSanitizerSelected ==
    /\ LoggedWhileEnabled
    /\ last.sanCalls # <<>>
    /\ \A c \in Range(last.sanCalls) : c[1] = "Default"

C19_Stateless ==
    last.op = "sanitize" => last.out = Sanitize(last.arg, 0).out

(***************************************************************************)
(* Properties of the end-to-end scenario                                   *)
(***************************************************************************)
\* the message an error value carries: an Error's message, or the message
\* property of an object standing in for it
ErrorMessage(v) ==
    IF Kind(v) = "err" THEN StrVal(v[2]) ELSE GetProp(v, KeyMessage)

\* C20: on an enabled repository whose config enables sanitization the
\* scenario's log call delivers, to every adapter of the Map, level 'error',
\* message 'Operation failed', data.cardNumber '[REDACTED]' and an error
\* equivalent to the caller's Error: an object with its message 'timeout'.
C20_EndToEnd ==
    (/\ LoggedWhileEnabled
     /\ last.options = ScenarioOptions
     /\ config[last.inst].sanitization.enabled) =>
        /\ Len(last.calls) = Len(adapters[last.inst])
        /\ \A k \in DOMAIN last.calls :
              /\ last.calls[k].level = LevelError
              /\ last.calls[k].message = MessageFailed
              /\ GetProp(last.calls[k].ctx.data, KeyCardNumber) = StrVal(REDACTED)
              /\ IsObjectType(last.calls[k].ctx.error)
              /\ ErrorMessage(last.calls[k].ctx.error) = ErrorMessage(ErrTimeout)

\* the scenario without its last conjunct: level, message and the redacted
\* card number
ScenarioButError ==
    (/\ LoggedWhileEnabled
     /\ last.options = ScenarioOptions
     /\ config[last.inst].sanitization.enabled) =>
        /\ Len(last.calls) = Len(adapters[last.inst])
        /\ \A k \in DOMAIN last.calls :
              /\ last.calls[k].level = LevelError
              /\ last.calls[k].message = MessageFailed
              /\ GetProp(last.calls[k].ctx.data, KeyCardNumber) = StrVal(REDACTED)
              /\ last.calls[k].ctx.error = <<"obj", <<>> >>


(***************************************************************************)
(* getConfig and updateConfig                                              *)
(***************************************************************************)
\* C21: getConfig() is a defensive copy: no assignment made through the
\* object it returned changes the repository's configuration, which later
\* getConfig() and log() calls read
C21_GetConfigDefensiveCopy ==
    last.op = "assign" => config[last.inst] = last.cfgBefore

\* an assignment to a property of the returned object itself leaves the
\* repository's configuration as it was
TopLevelAssignIsolated ==
    (last.op = "assign" /\ last.held.same = {}) => config[last.inst] = last.cfgBefore

\* the log call, made next after updateConfig, the claim C22 is about: on the
\* same enabled repository, with data, without skipSanitization, a per-call
\* sanitizer or a sanitizer registered for its tag
LogAfterUpdate ==
    /\ last.op = "updateConfig"
    /\ last'.op = "log"
    /\ last'.inst = last.inst
    /\ enabled[last.inst]
    /\ last'.options.present
    /\ Truthy(last'.options.data)
    /\ ~last'.options.skipSanitization
    /\ last'.options.sanitizer = NoSanitizer
    /\ RegistryGet(registry, last'.options.tag) = NoSanitizer

\* the adapters of a log call were given sanitizer.sanitize(data) as data
DataDeliveredFrom(obs, sanitizer) ==
    /\ obs.sanCalls # <<>>
    /\ obs.sanCalls[1] = <<sanitizer, obs.options.data>>
    /\ \A k \in DOMAIN obs.calls :
          obs.calls[k].ctx.data = ApplySanitizer(sanitizer, obs.options.data, 0).out

\* C22: if sanitization was enabled, then after updateConfig(partial) with a
\* partial whose sanitization.defaultSanitizer is S, a log call with data
\* and nothing that selects another sanitizer delivers S.sanitize(data)
C22_UpdateConfigReplacesSanitizer ==
    [][ ( /\ LogAfterUpdate
          /\ last.cfgBefore.sanitization.present
          /\ last.cfgBefore.sanitization.enabled
          /\ "sanitization" \in last.partial.has
          /\ last.partial.sanitization.defaultSanitizer # NoSanitizer )
        => DataDeliveredFrom(last', last.partial.sanitization.defaultSanitizer) ]_vars

\* the same when the partial itself says sanitization.enabled: true
UpdateConfigWithEnabled ==
    [][ ( /\ LogAfterUpdate
          /\ "sanitization" \in last.partial.has
          /\ last.partial.sanitization.enabled
          /\ last.partial.sanitization.defaultSanitizer # NoSanitizer )
        => DataDeliveredFrom(last', last.partial.sanitization.defaultSanitizer) ]_vars

(***************************************************************************)
(* Tags and the sanitizer registry in log                                  *)
(***************************************************************************)
\* C23: once a sanitizer is registered for the tag 'Auth', a log call with
\* the tag '[Auth]', without skipSanitization and without a per-call
\* sanitizer, is sanitized by the registered sanitizer
C23_BracketedTag ==
    ( /\ LoggedWhileEnabled
      /\ last.options.present
      /\ ~last.options.skipSanitization
      /\ last.options.sanitizer = NoSanitizer
      /\ last.options.tag = TagBracketAuth
      /\ RegistryGet(registry, TagAuth) # NoSanitizer )
    => DeliveredBy(RegistryGet(registry, TagAuth))

\* the same call with the tag as it was registered, 'Auth'
PlainTagSelected ==
    ( /\ LoggedWhileEnabled
      /\ last.options.present
      /\ ~last.options.skipSanitization
      /\ last.options.sanitizer = NoSanitizer
      /\ last.options.tag = TagAuth
      /\ RegistryGet(registry, TagAuth) # NoSanitizer )
    => DeliveredBy(RegistryGet(registry, TagAuth))

(***************************************************************************)
(* Phone numbers inside strings                                            *)
(***************************************************************************)
\* the last call sanitized { name: v }, name being neither a redacted nor a
\* masked key, with a phone number somewhere in the string v
PhoneUnderPlainKey ==
    /\ last.op = "sanitize"
    /\ Kind(last.arg) = "obj"
    /\ Len(Entries(last.arg)) = 1
    /\ Entries(last.arg)[1][1] = KeyName
    /\ Kind(Entries(last.arg)[1][2]) = "str"
    /\ FirstMatch(PhoneEnd, Entries(last.arg)[1][2][2], 1) # 0

\* C24: a phone number inside a string sanitized outside a redacted or
\* masked key is replaced by a form that keeps its last 4 digits only: the
\* digits left in the output are those four
C24_EmbeddedPhonesMasked ==
    PhoneUnderPlainKey =>
        With(Entries(last.arg)[1][2][2], LAMBDA v :
          With(PhoneEnd(v, FirstMatch(PhoneEnd, v, 1)), LAMBDA e :
            /\ Kind(Entries(last.out)[1][2]) = "str"
            /\ SelectSeq(Entries(last.out)[1][2][2], IsDigit) = SubSeq(v, e - 3, e)))

\* what the code does with such a number: it is kept whole, behind '***-***-'
PhoneKeptWhole ==
    PhoneUnderPlainKey =>
        With(Entries(last.arg)[1][2][2], LAMBDA v :
          With(FirstMatch(PhoneEnd, v, 1), LAMBDA p :
            Entries(last.out)[1][2][2] =
                SubSeq(v, 1, p - 1) \o <<"*","*","*","-","*","*","*","-">>
                    \o SubSeq(v, p, Len(v))))

\* the last call was a delivered log call with a tag, without
\* skipSanitization and a per-call sanitizer, and the registry holds no
\* sanitizer for the tag
TagWithoutSanitizer ==
    /\ LoggedWhileEnabled
    /\ last.options.present
    /\ ~last.options.skipSanitization
    /\ last.options.sanitizer = NoSanitizer
    /\ last.options.tag # <<>>
    /\ RegistryGet(registry, last.options.tag) = NoSanitizer

C26_UnregisterRemovesOnlyDestroyed ==
    ( /\ last.op = "unregisterAdapter"
      /\ last.settled = "resolved"
      /\ last.destroyed # <<>>
      /\ MapHas(last.before, last.name)
      /\ MapGet(last.before, last.name) # last.destroyed[1] )
    => MapGet(adapters[last.inst], last.name) = MapGet(last.before, last.name)

\* the adapters whose destroy() a suspended unregisterAdapter or destroy
\* has invoked
TornDownBy(p) ==
    IF p.op = "unregisterAdapter" THEN {p.adapter}
    ELSE IF p.op = "destroy" THEN Range(p.destroyed)
    ELSE {}

\* C27: log() is invoked on no adapter whose destroy() the repository has
\* invoked, here by an unregisterAdapter or destroy still at its await,
\* during which no registration takes place
C27_NoLogAfterTeardown ==
    last.op = "log" =>
        \A p \in pending : p.inst = last.inst =>
            \A k \in DOMAIN last.calls : last.calls[k].adapter \notin TornDownBy(p)

\* C28: every adapter destroy() removes from the Map has had its destroy()
\* invoked by that call, and once destroy() has settled the Map is empty
\* and stays so, the registerAdapter calls all having started before it
C28_DestroyRegisterRace ==
    /\ (last.op = "destroy" /\ last.settled = "resolved") =>
           Range(MapValues(last.before)) \subseteq Range(last.destroyed)
    /\ \A i \in Insts :
           ( /\ gate[i] = "destroyed"
             /\ \A p \in pending : ~(p.op = "destroy" /\ p.inst = i) )
           => adapters[i] = <<>>

\* the first half of C28 alone
ClearedWereDestroyed ==
    (last.op = "destroy" /\ last.settled = "resolved") =>
        Range(MapValues(last.before)) \subseteq Range(last.destroyed)

(***************************************************************************)
(* Registration under a name that is taken                                 *)
(***************************************************************************)
\* a registerAdapter call has resolved whose name was in the Map when it ran
ReRegistered == RegisterResolved /\ MapHas(last.before, last.name)

\* the call did not add its adapter: initialize failed or isEnabled() was false
NotAdded == ~(last.initOk /\ last.isEnabled)

\* after a resolved registerAdapter under a taken name: the Map is as before
\* when the adapter was not added, and holds the names in the same order,
\* the new adapter under its name, when it was
ReRegistrationKeepsPlace ==
    ReRegistered =>
        IF NotAdded THEN adapters[last.inst] = last.before
        ELSE /\ MapKeys(adapters[last.inst]) = MapKeys(last.before)
             /\ MapGet(adapters[last.inst], last.name) = last.adapter

\* a log call that follows a registerAdapter which did not add its adapter,
\* and that reaches the fan-out, calls the adapter the name held, at the
\* name's place
LogAfterFailedReRegistration ==
    ( /\ ReRegistered
      /\ NotAdded
      /\ last'.op = "log"
      /\ last'.inst = last.inst
      /\ enabled[last.inst]
      /\ last'.settled = "returned" )
    => \E k \in DOMAIN last.before :
          /\ last.before[k].name = last.name
          /\ k \in DOMAIN last'.calls
          /\ last'.calls[k].name = last.name
          /\ last'.calls[k].adapter = last.before[k].adapter

\* C29: a registerAdapter(name, B, config) that does not add B leaves the
\* adapter registered under name where it is in the fan-out order, and log
\* calls go on reaching it; one that adds B keeps the name's place
C29_FailedReRegistration ==
    /\ []ReRegistrationKeepsPlace
    /\ [][LogAfterFailedReRegistration]_vars

\* a registration of another adapter under the first of two registered
\* names whose initialize failed, the Map being as before
C29_Witness ==
    /\ ReRegistered
    /\ ~last.initOk
    /\ Len(last.before) = 2
    /\ last.before[1].name = last.name
    /\ last.before[1].adapter # last.adapter
    /\ adapters[last.inst] = last.before

(***************************************************************************)
(* The sanitizer registry and the singleton                                *)
(***************************************************************************)
\* a step that is no unregister and no clear of the registry keeps every
\* registered sanitizer; resetInstance and destroy keep the registry whole
RegistrySurvives ==
    /\ last'.op \notin {"unregisterSanitizer", "clearSanitizers"} =>
           \A t \in DOMAIN registry : t \in DOMAIN registry' /\ registry'[t] = registry[t]
    /\ last'.op \in {"resetInstance", "destroy"} => registry' = registry

\* a log call on the second repository, without skipSanitization and a
\* per-call sanitizer, whose tag has a sanitizer in the registry, is
\* sanitized by it
SelectedOnFreshInstance ==
    ( /\ LoggedWhileEnabled
      /\ last.inst = 2
      /\ last.options.present
      /\ ~last.options.skipSanitization
      /\ last.options.sanitizer = NoSanitizer
      /\ RegistryGet(registry, last.options.tag) # NoSanitizer )
    => /\ last.sanCalls # <<>>
       /\ DeliveredBy(RegistryGet(registry, last.options.tag))

\* C30: resetInstance() and destroy() leave the sanitizer registry as it
\* is: a sanitizer registered for a tag through the first repository stays
\* registered until unregister or clear, and is the one log calls with the
\* tag are sanitized by on the repository getInstance returns after a reset
C30_RegistryOutlivesSingleton ==
    /\ [][RegistrySurvives]_vars
    /\ []SelectedOnFreshInstance

\* a log call tagged 'Auth' on the second repository, delivered with the
\* output of the sanitizer that was registered through the first
C30_Witness ==
    /\ LoggedWhileEnabled
    /\ last.inst = 2
    /\ last.options.tag = TagAuth
    /\ RegistryGet(registry, TagAuth) = "S2"
    /\ Len(last.calls) = 1
    /\ last.calls[1].ctx.data = <<"san", "S2", DataSecret>>

====
